---- MODULE Spec2Model ----
(***************************************************************************)
(* Webhook ingestion pipeline of the payment-gateway facade:               *)
(*   features/webhooks/routes.js   (verifyWebhook, router.post('/'))       *)
(*   features/webhooks/service.js  (WebhookService.processWebhook, ...)    *)
(*   shared/services/firestoreService.js (booking update, audit log)       *)
(*   shared/middleware/validation.js, errorHandler.js                      *)
(* and the client-key idempotency ledger in front of the payment-request   *)
(* routes:                                                                 *)
(*   shared/middleware/idempotency.js, app.js (route mounting),            *)
(*   features/payment-requests/routes.js, features/invoices/routes.js      *)
(*                                                                         *)
(* JavaScript values are written as strings: a string is itself, an absent *)
(* property is Undefined, null is Null, a boolean is "true"/"false".       *)
(* Every request runs on the single Node.js thread: the synchronous part   *)
(* of a request (middleware chain up to the first awaited store call) is   *)
(* one action, and each awaited store call completes in an action of its   *)
(* own, so that other requests interleave exactly at the await points.     *)
(***************************************************************************)
EXTENDS Integers, Sequences, FiniteSets, Bags, TLC

VARIABLES
  expectedToken,      \* process.env.WEBHOOK_CALLBACK_TOKEN
  dbAvailable,        \* firestoreService.db !== null
  processedWebhooks,  \* service.js: const processedWebhooks = new Set()
  webhookStore,       \* service.js: const webhookStore = new Map()
  bookings,           \* Firestore collection 'booking'
  paymentLogs,        \* Firestore collection 'payment_logs' (a bag of documents)
  reqs,               \* the HTTP requests of this process lifetime
  idempotencyStore,   \* idempotency.js: const idempotencyStore = new Map()
  now                 \* Date.now(), in milliseconds since the process started

vars == <<expectedToken, dbAvailable, processedWebhooks, webhookStore,
          bookings, paymentLogs, reqs, idempotencyStore, now>>

-----------------------------------------------------------------------------
(* Bounds *)

\* number of webhook POST requests delivered in one behaviour
MaxDeliveries == 2

Reqs == 1..MaxDeliveries

-----------------------------------------------------------------------------
(* JavaScript values *)

Undefined == "undefined"
Null == "null"

\* !v for a value that is a string, a number, null or undefined; a number
\* is written as its decimal text, so "0" is the number 0
Falsy(v) == v \in {Undefined, Null, "", "0"}

\* a || b
Or(a, b) == IF Falsy(a) THEN b ELSE a

-----------------------------------------------------------------------------
(* Request inputs *)

Secret == "test_webhook_token"

\* x-callback-token header: absent, empty, the secret, another value
Tokens == {Undefined, "", Secret, "wrong-token"}

\* webhook-id header: absent or an explicit delivery id
HeaderIds == {Undefined, "wh-1"}

\* the tags sent together with an explicit delivery id
HeaderEvents == {"payment.capture", "payment.failure"}

RecognizedEvents ==
  {"payment.capture", "payment.authorization", "payment.failure",
   "payment.failed", "payment.succeeded", "capture.succeeded",
   "payment_request.expiry", "payment_request.succeeded",
   "payment_request.failed"}

DataFields ==
  {"payment_id", "id", "payment_request_id", "reference_id", "status",
   "amount", "currency", "channel_code", "failure_code",
   "captured_amount", "authorized_amount"}

\* the data object of a payment / payment-request event
MkData(pid, ref, st) ==
  [payment_id |-> pid, id |-> Undefined, payment_request_id |-> "pr-1",
   reference_id |-> ref, status |-> st, amount |-> "500",
   currency |-> "PHP", channel_code |-> "PAYMAYA",
   failure_code |-> IF st = "FAILED" THEN "INSUFFICIENT_BALANCE" ELSE Undefined,
   captured_amount |-> Undefined, authorized_amount |-> Undefined]

\* the data object of a capture event: the capture's own id, no payment_id
MkCapture(ref, st) ==
  [payment_id |-> Undefined, id |-> "cap-1", payment_request_id |-> "pr-1",
   reference_id |-> ref, status |-> st, amount |-> Undefined,
   currency |-> "PHP", channel_code |-> Undefined, failure_code |-> Undefined,
   captured_amount |-> "500", authorized_amount |-> "500"]

MkBody(ev, data) ==
  [event |-> ev, business_id |-> "biz-1", created |-> "2024-01-01T00:00:00Z",
   data |-> data]

\* the status the provider sends with each event tag
StatusOf(ev) ==
  CASE ev \in {"payment.capture", "payment.succeeded", "capture.succeeded",
               "payment_request.succeeded"} -> "SUCCEEDED"
    [] ev = "payment.authorization" -> "AUTHORIZED"
    [] ev = "payment_request.expiry" -> "EXPIRED"
    [] OTHER -> "FAILED"

ExistingBooking == "order-1"
MissingBooking == "order-404"

\* payment-request events carry no payment_id
PaymentIdOf(ev) ==
  IF ev \in {"payment_request.expiry", "payment_request.succeeded",
             "payment_request.failed"}
  THEN Undefined ELSE "py-1"

\* the tags delivered: one for each handler of the dispatcher
DeliveredEvents ==
  {"payment.capture", "capture.succeeded", "payment.authorization",
   "payment.failure", "payment_request.expiry", "payment_request.succeeded",
   "payment_request.failed"}

\* request bodies: one per delivered tag about the existing booking, a
\* capture about a booking that does not exist, and two bodies the schema
\* rejects (unknown tag, no reference_id)
Bodies ==
  {MkBody(ev, IF ev = "capture.succeeded"
              THEN MkCapture(ExistingBooking, StatusOf(ev))
              ELSE MkData(PaymentIdOf(ev), ExistingBooking, StatusOf(ev))) :
      ev \in DeliveredEvents}
  \cup {MkBody("payment.capture", MkData("py-1", MissingBooking, "SUCCEEDED")),
        MkBody("invoice.paid", MkData("py-1", ExistingBooking, "SUCCEEDED")),
        MkBody("payment_request.expiry", MkData(Undefined, Undefined, "EXPIRED"))}

\* the deliveries: every body without a webhook-id header, and the bodies of
\* HeaderEvents with an explicit one
Deliveries ==
  {d \in HeaderIds \X Bodies :
     d[1] # Undefined => d[2].event \in HeaderEvents}

-----------------------------------------------------------------------------
(* routes.js: verifyWebhook *)

ErrorBody(code, message) == [error |-> [code |-> code, message |-> message]]

NoResponse == [status |-> 0, body |-> [none |-> TRUE]]

\* variant: a request without a token is let through
VerifyWebhookMissingTokenPasses(callbackToken, expected) ==
  IF Falsy(expected)
  THEN [next |-> FALSE, status |-> 500,
        body |-> ErrorBody("CONFIGURATION_ERROR",
                           "Webhook verification not configured")]
  ELSE IF ~Falsy(callbackToken) /\ callbackToken # expected
  THEN [next |-> FALSE, status |-> 401,
        body |-> ErrorBody("INVALID_WEBHOOK_TOKEN",
                           "Invalid webhook callback token")]
  ELSE [next |-> TRUE, status |-> 0, body |-> [none |-> TRUE]]

\* variant: without a configured secret the verification is skipped
VerifyWebhookFailOpen(callbackToken, expected) ==
  IF Falsy(expected)
  THEN [next |-> TRUE, status |-> 0, body |-> [none |-> TRUE]]
  ELSE IF Falsy(callbackToken) \/ callbackToken # expected
  THEN [next |-> FALSE, status |-> 401,
        body |-> ErrorBody("INVALID_WEBHOOK_TOKEN",
                           "Invalid webhook callback token")]
  ELSE [next |-> TRUE, status |-> 0, body |-> [none |-> TRUE]]

VerifyWebhook(callbackToken, expected) ==
  IF Falsy(expected)
  THEN [next |-> FALSE, status |-> 500,
        body |-> ErrorBody("CONFIGURATION_ERROR",
                           "Webhook verification not configured")]
  ELSE IF Falsy(callbackToken) \/ callbackToken # expected
  THEN [next |-> FALSE, status |-> 401,
        body |-> ErrorBody("INVALID_WEBHOOK_TOKEN",
                           "Invalid webhook callback token")]
  ELSE [next |-> TRUE, status |-> 0, body |-> [none |-> TRUE]]

-----------------------------------------------------------------------------
(* schemas.js: webhookSchema;  validation.js: validate *)

\* Joi.string().required(): present and not empty
RequiredString(v) == v \notin {Undefined, Null, ""}

WebhookSchemaValid(body) ==
  /\ body.event \in RecognizedEvents
  /\ RequiredString(body.business_id)
  /\ RequiredString(body.created)
  /\ RequiredString(body.data.status)
  /\ RequiredString(body.data.reference_id)

Validate(body) ==
  IF ~WebhookSchemaValid(body)
  THEN [next |-> FALSE, status |-> 400,
        body |-> ErrorBody("VALIDATION_ERROR", "Invalid request data")]
  ELSE [next |-> TRUE, status |-> 0, body |-> [none |-> TRUE]]

-----------------------------------------------------------------------------
(* service.js: processWebhook, identifier and dispatch *)

\* variant: reference_id is preferred over the payment's own ids
IdentifierReferenceFirst(data) ==
  Or(data.reference_id, Or(data.payment_id, Or(data.id, data.payment_request_id)))

Identifier(data) ==
  Or(data.payment_id, Or(data.id, Or(data.payment_request_id, data.reference_id)))

WebhookIdOf(headerId, body) ==
  Or(headerId, body.event \o "-" \o Identifier(body.data) \o "-" \o body.created)

WebhookRecord(webhookId, body) ==
  [id |-> webhookId, event |-> body.event, business_id |-> body.business_id,
   created |-> body.created, data |-> body.data]

\* variant: the identifier is never recorded
MarkProcessedForgets(processed, webhookId) == processed

\* processedWebhooks.add(webhookId)
MarkProcessed(processed, webhookId) == processed \cup {webhookId}

\* webhookStore.set(webhookId, webhookRecord)
MapSet(map, key, value) ==
  [k \in DOMAIN map \cup {key} |-> IF k = key THEN value ELSE map[k]]

\* the handler the switch statement selects
HandlerOf(event) ==
  CASE event \in {"payment.capture", "payment.succeeded"} -> "handlePaymentCapture"
    [] event = "capture.succeeded" -> "handleCaptureSucceeded"
    [] event = "payment.authorization" -> "handlePaymentAuthorization"
    [] event \in {"payment.failure", "payment.failed"} -> "handlePaymentFailure"
    [] event = "payment_request.expiry" -> "handlePaymentRequestExpiry"
    [] event = "payment_request.succeeded" -> "handlePaymentRequestSucceeded"
    [] event = "payment_request.failed" -> "handlePaymentRequestFailed"
    [] OTHER -> "none"

\* does the handler call updateBookingTransactionStatus for this payload
CallsUpdate(handler, data) ==
  \/ handler \in {"handlePaymentCapture", "handleCaptureSucceeded",
                  "handlePaymentFailure"}
  \/ /\ handler \in {"handlePaymentRequestExpiry", "handlePaymentRequestFailed"}
     /\ ~Falsy(data.reference_id)

\* variant: the authorization handler writes an audit record too
CallsLogAuthorizationToo(handler) == handler # "none"

\* does the handler call createPaymentLog
CallsLog(handler) ==
  handler \notin {"handlePaymentAuthorization", "none"}

\* the paymentData argument of updateBookingTransactionStatus
PaymentDataOf(handler, data) ==
  IF handler = "handleCaptureSucceeded"
  THEN [f \in DataFields |->
          CASE f = "payment_id" -> data.id
            [] f = "reference_id" -> data.reference_id
            [] f = "payment_request_id" -> data.payment_request_id
            [] f = "status" -> data.status
            [] f = "amount" -> Or(data.captured_amount, data.authorized_amount)
            [] f = "currency" -> data.currency
            [] OTHER -> Undefined]
  ELSE data

\* the event tag the handler writes into the audit record
LogEventOf(handler) ==
  CASE handler = "handlePaymentCapture" -> "payment.capture"
    [] handler = "handleCaptureSucceeded" -> "capture.succeeded"
    [] handler = "handlePaymentFailure" -> "payment.failure"
    [] handler = "handlePaymentRequestExpiry" -> "payment_request.expiry"
    [] handler = "handlePaymentRequestSucceeded" -> "payment_request.succeeded"
    [] handler = "handlePaymentRequestFailed" -> "payment_request.failed"
    [] OTHER -> Undefined

\* the record handed to createPaymentLog
LogRecordOf(handler, data) ==
  [data |-> data, event |-> LogEventOf(handler), bookingId |-> data.reference_id,
   capture_id |-> IF handler = "handleCaptureSucceeded" THEN data.id ELSE Undefined,
   source |-> "xendit_webhook"]

-----------------------------------------------------------------------------
(* firestoreService.js *)

\* keys of statusMap[...] that resolve to a member inherited from
\* Object.prototype instead of undefined
ObjectPrototypeKeys ==
  {"constructor", "toString", "valueOf", "hasOwnProperty", "__proto__"}

\* what statusMap[key] yields for such a key: a function or object, not a string
InheritedMember == "[inherited member]"

MapXenditStatus(xenditStatus) ==
  CASE xenditStatus = "SUCCEEDED" -> "completed"
    [] xenditStatus = "AUTHORIZED" -> "authorized"
    [] xenditStatus = "PENDING" -> "pending"
    [] xenditStatus = "FAILED" -> "failed"
    [] xenditStatus = "CANCELED" -> "cancelled"
    [] xenditStatus = "EXPIRED" -> "expired"
    [] xenditStatus \in ObjectPrototypeKeys -> InheritedMember
    [] OTHER -> "unknown"

\* String.prototype.trim on the fulfillment URLs that occur
Trim(s) ==
  CASE s \in {" ", "   "} -> ""
    [] s = " https://cdn.example/ad.mp4 " -> "https://cdn.example/ad.mp4"
    [] OTHER -> s

IsPaymentSuccessful(status, mappedStatus) ==
  status = "SUCCEEDED" \/ mappedStatus = "completed"

\* variant: the fulfillment URL is compared without trimming
BookingStatusOfUntrimmed(bookingData, status) ==
  LET payLater == bookingData.payLater
      url == Or(bookingData.url, "")
      mappedStatus == MapXenditStatus(status)
      isPayLaterFalseOrNull == payLater \in {"false", Null, Undefined}
  IN IF IsPaymentSuccessful(status, mappedStatus)
     THEN IF isPayLaterFalseOrNull /\ Falsy(url)
          THEN "Content Pending"
          ELSE IF /\ mappedStatus = "pending"
                  /\ isPayLaterFalseOrNull
                  /\ ~Falsy(url)
          THEN "Processing"
          ELSE Null
     ELSE Null

\* variant: the rules are evaluated whatever the provider status is
BookingStatusOfUnguarded(bookingData, status) ==
  LET payLater == bookingData.payLater
      url == Or(bookingData.url, "")
      mappedStatus == MapXenditStatus(status)
      isPayLaterFalseOrNull == payLater \in {"false", Null, Undefined}
  IN IF isPayLaterFalseOrNull /\ (Falsy(url) \/ Trim(url) = "")
     THEN "Content Pending"
     ELSE IF isPayLaterFalseOrNull THEN "Processing" ELSE Null

\* the derived top-level status; Null when none is derived
BookingStatusOf(bookingData, status) ==
  LET payLater == bookingData.payLater
      url == Or(bookingData.url, "")
      mappedStatus == MapXenditStatus(status)
      isPayLaterFalseOrNull == payLater \in {"false", Null, Undefined}
  IN IF IsPaymentSuccessful(status, mappedStatus)
     THEN IF isPayLaterFalseOrNull /\ (Falsy(url) \/ Trim(url) = "")
          THEN "Content Pending"
          ELSE IF /\ mappedStatus = "pending"
                  /\ isPayLaterFalseOrNull
                  /\ ~Falsy(url)
                  /\ Trim(url) # ""
          THEN "Processing"
          ELSE Null
     ELSE Null

ServerTimestamp == "serverTimestamp"

\* the object literal of updateData before undefined values are filtered out
UpdateEntries(bookingData, status, paymentData) ==
  LET bookingStatus == BookingStatusOf(bookingData, status)
  IN [k \in {"transaction.status", "transaction.updatedAt",
             "transaction.paymentId", "transaction.referenceId",
             "transaction.paymentRequestId", "transaction.amount",
             "transaction.currency", "transaction.channelCode",
             "transaction.failureCode", "transaction.processedAt", "status"} |->
       CASE k = "transaction.status" -> MapXenditStatus(status)
         [] k = "transaction.updatedAt" -> ServerTimestamp
         [] k = "transaction.paymentId" -> paymentData.payment_id
         [] k = "transaction.referenceId" -> paymentData.reference_id
         [] k = "transaction.paymentRequestId" -> paymentData.payment_request_id
         [] k = "transaction.amount" -> paymentData.amount
         [] k = "transaction.currency" -> paymentData.currency
         [] k = "transaction.channelCode" -> paymentData.channel_code
         [] k = "transaction.failureCode" -> paymentData.failure_code
         [] k = "transaction.processedAt" -> ServerTimestamp
         [] OTHER -> IF Falsy(bookingStatus) THEN Undefined ELSE bookingStatus]

\* Object.fromEntries(Object.entries({...}).filter(([_, v]) => v !== undefined))
UpdateDataOf(bookingData, status, paymentData) ==
  LET entries == UpdateEntries(bookingData, status, paymentData)
  IN [k \in {e \in DOMAIN entries : entries[e] # Undefined} |-> entries[k]]

\* variant: a completed transaction keeps its status
MergeUpdateGuarded(doc, updateData) ==
  [f \in DOMAIN doc |->
     IF f = "transaction"
     THEN [t \in DOMAIN doc.transaction |->
             IF /\ ("transaction." \o t) \in DOMAIN updateData
                /\ ~(t = "status" /\ doc.transaction.status = "completed")
             THEN updateData["transaction." \o t] ELSE doc.transaction[t]]
     ELSE IF f \in DOMAIN updateData THEN updateData[f] ELSE doc[f]]

\* variant: the document is replaced by the update data (set without merge)
MergeUpdateOverwrite(doc, updateData) ==
  [f \in DOMAIN doc |->
     IF f = "transaction"
     THEN [t \in DOMAIN doc.transaction |->
             IF ("transaction." \o t) \in DOMAIN updateData
             THEN updateData["transaction." \o t] ELSE Undefined]
     ELSE IF f \in DOMAIN updateData THEN updateData[f] ELSE Undefined]

\* bookingRef.update(updateData): merge of dotted field paths into the document
MergeUpdate(doc, updateData) ==
  [f \in DOMAIN doc |->
     IF f = "transaction"
     THEN [t \in DOMAIN doc.transaction |->
             IF ("transaction." \o t) \in DOMAIN updateData
             THEN updateData["transaction." \o t] ELSE doc.transaction[t]]
     ELSE IF f \in DOMAIN updateData THEN updateData[f] ELSE doc[f]]

\* a value the store cannot serialize makes update() throw
Storable(updateData) ==
  \A k \in DOMAIN updateData : updateData[k] # InheritedMember

\* errors raised by the store client: a plain Error, one carrying a code
\* property, one carrying a statusCode property
StoreErrors ==
  {[name |-> "Error", message |-> "store call failed", code |-> Undefined,
    statusCode |-> 0],
   [name |-> "Error", message |-> "store call failed", code |-> "14",
    statusCode |-> 0],
   [name |-> "Error", message |-> "store call failed", code |-> Undefined,
    statusCode |-> 503]}

\* throw new Error(`Failed to update booking: ${error.message}`)
WrapUpdateError(error) ==
  [name |-> "Error", message |-> "Failed to update booking: " \o error.message,
   code |-> Undefined, statusCode |-> 0]

-----------------------------------------------------------------------------
(* errorHandler.js *)

ErrorHandler(err) ==
  LET replaced ==
        IF err.name = "TokenExpiredError"
        THEN [message |-> "Token expired", code |-> "TOKEN_EXPIRED", statusCode |-> 0]
        ELSE IF err.name = "JsonWebTokenError"
        THEN [message |-> "Invalid token", code |-> "INVALID_TOKEN", statusCode |-> 0]
        ELSE IF err.name = "ValidationError"
        THEN [message |-> err.message, code |-> "VALIDATION_ERROR", statusCode |-> 0]
        ELSE IF err.code = "11000"
        THEN [message |-> "Duplicate field value entered",
              code |-> "DUPLICATE_FIELD", statusCode |-> 0]
        ELSE IF err.name = "CastError"
        THEN [message |-> "Resource not found", code |-> "INVALID_ID", statusCode |-> 0]
        ELSE [message |-> err.message, code |-> err.code, statusCode |-> err.statusCode]
  IN [status |-> IF replaced.statusCode # 0 THEN replaced.statusCode ELSE 500,
      body |-> [success |-> FALSE,
                error |-> [code |-> Or(replaced.code, "INTERNAL_SERVER_ERROR"),
                           message |-> Or(replaced.message, "Internal Server Error")]]]

-----------------------------------------------------------------------------
(* Request state *)

NoData == [f \in DataFields |-> Undefined]
NoUpdate == [k \in {"none"} |-> Undefined]
NoResult == [outcome |-> "none", reason |-> Undefined, status |-> Undefined]

\* a request that has not arrived yet
IdleReq ==
  [pc |-> "idle",            \* idle, get, update, logset, done
   token |-> Undefined,      \* the x-callback-token it carried
   bodyValid |-> FALSE,      \* whether its body satisfies webhookSchema
   webhookId |-> Undefined,  \* the event identifier computed for it
   headerId |-> Undefined,   \* req.headers['webhook-id']
   created |-> Undefined,    \* req.body.created
   event |-> Undefined,      \* req.body.event
   fresh |-> FALSE,          \* processedWebhooks.has(webhookId) was false
   handler |-> "none",       \* the handler the dispatcher selected
   data |-> NoData,          \* req.body.data
   bookingId |-> Undefined,  \* arguments of updateBookingTransactionStatus
   status |-> Undefined,
   paymentData |-> NoData,
   updateData |-> NoUpdate,  \* computed from the document read by get()
   result |-> NoResult,      \* what updateBookingTransactionStatus returned
   resp |-> NoResponse,      \* the HTTP response sent
   calls |-> <<>>]           \* the functions entered for it, in order

Success200(slot) ==
  [status |-> 200,
   body |-> [success |-> TRUE, message |-> "Webhook processed successfully",
             webhookId |-> slot.webhookId, event |-> slot.event,
             status |-> slot.data.status,
             referenceId |-> slot.data.reference_id]]

\* variant: the route has no branch for result.duplicate
Duplicate200AsProcessed(webhookId) ==
  [status |-> 200,
   body |-> [success |-> TRUE, message |-> "Webhook processed successfully",
             webhookId |-> webhookId]]

Duplicate200(webhookId) ==
  [status |-> 200,
   body |-> [success |-> TRUE, message |-> "Webhook already processed",
             webhookId |-> webhookId]]

\* processWebhook returned { processed: true }: the route answers 200
Respond200(slot) == [slot EXCEPT !.pc = "done", !.resp = Success200(slot)]

\* an error leaves the handler: handler catch rethrows, the route's catch
\* calls next(error), errorHandler answers
RespondError(slot, err) ==
  [slot EXCEPT !.pc = "done", !.resp = ErrorHandler(err),
               !.calls = Append(slot.calls, "errorHandler")]

\* variant: without a store createPaymentLog throws
EnterLogUnavailableThrows(slot, available) ==
  LET s1 == [slot EXCEPT !.calls = Append(slot.calls, "createPaymentLog")]
  IN IF available THEN [s1 EXCEPT !.pc = "logset"]
     ELSE RespondError(s1, [name |-> "Error",
                            message |-> "Firestore not available",
                            code |-> Undefined, statusCode |-> 0])

\* createPaymentLog is entered: without a store it returns null at once
EnterLog(slot, available) ==
  LET s1 == [slot EXCEPT !.calls = Append(slot.calls, "createPaymentLog")]
  IN IF available THEN [s1 EXCEPT !.pc = "logset"] ELSE Respond200(s1)

\* updateBookingTransactionStatus returned res: to the handler, which goes
\* on to the audit log, or to a direct caller
AfterUpdate(slot, res, available) ==
  IF slot.handler = "caller"
  THEN [slot EXCEPT !.result = res, !.pc = "done"]
  ELSE EnterLog([slot EXCEPT !.result = res], available)

\* variant: without a store updateBookingTransactionStatus throws
CallUpdateBookingThrows(slot, bookingId, status, paymentData, available) ==
  LET s1 == [slot EXCEPT
               !.calls = Append(slot.calls, "updateBookingTransactionStatus"),
               !.bookingId = bookingId,
               !.status = status,
               !.paymentData = paymentData]
  IN IF available
     THEN [s1 EXCEPT !.pc = "get"]
     ELSE RespondError(s1, [name |-> "Error",
                            message |-> "Firestore not available",
                            code |-> Undefined, statusCode |-> 0])

\* updateBookingTransactionStatus(bookingId, status, paymentData) is
\* entered: without a store it returns a skipped outcome at once, with one
\* it awaits bookingRef.get()
CallUpdateBooking(slot, bookingId, status, paymentData, available) ==
  LET s1 == [slot EXCEPT
               !.calls = Append(slot.calls, "updateBookingTransactionStatus"),
               !.bookingId = bookingId,
               !.status = status,
               !.paymentData = paymentData]
  IN IF available
     THEN [s1 EXCEPT !.pc = "get"]
     ELSE AfterUpdate(s1, [outcome |-> "skipped",
                           reason |-> "Firestore not available",
                           status |-> status], available)

\* variant: the handler starts the audit append before the booking update
EnterUpdateAuditFirst(slot, available) ==
  CallUpdateBooking([slot EXCEPT
                       !.calls = Append(slot.calls, "createPaymentLog")],
                    slot.data.reference_id, slot.data.status,
                    PaymentDataOf(slot.handler, slot.data), available)

\* the handler calls updateBookingTransactionStatus(reference_id, status, ...)
EnterUpdate(slot, available) ==
  CallUpdateBooking(slot, slot.data.reference_id, slot.data.status,
                    PaymentDataOf(slot.handler, slot.data), available)

\* the switch of processWebhook and the handler it calls, up to the first
\* awaited store call
Dispatch(slot, available) ==
  LET h == HandlerOf(slot.event)
      s1 == [slot EXCEPT !.handler = h,
                         !.calls = IF h = "none" THEN slot.calls
                                   ELSE Append(slot.calls, h)]
  IN IF CallsUpdate(h, s1.data) THEN EnterUpdate(s1, available)
     ELSE IF CallsLog(h) THEN EnterLog(s1, available)
     ELSE Respond200(s1)

-----------------------------------------------------------------------------
(* routes.js: router.post('/', verifyWebhook, validate(webhookSchema), handler) *)

\* variant: validate(webhookSchema) is mounted in front of verifyWebhook
MiddlewareValidateFirst(token, body, expected) ==
  LET auth == VerifyWebhook(token, expected)
      checked == Validate(body)
  IN IF ~checked.next
     THEN [next |-> FALSE, status |-> checked.status, body |-> checked.body,
           calls |-> <<"validate">>]
     ELSE IF ~auth.next
     THEN [next |-> FALSE, status |-> auth.status, body |-> auth.body,
           calls |-> <<"validate", "verifyWebhook">>]
     ELSE [next |-> TRUE, status |-> 0, body |-> [none |-> TRUE],
           calls |-> <<"validate", "verifyWebhook">>]

\* the middleware chain in front of the route handler: the first middleware
\* that answers ends the request
Middleware(token, body, expected) ==
  LET auth == VerifyWebhook(token, expected)
      checked == Validate(body)
  IN IF ~auth.next
     THEN [next |-> FALSE, status |-> auth.status, body |-> auth.body,
           calls |-> <<"verifyWebhook">>]
     ELSE IF ~checked.next
     THEN [next |-> FALSE, status |-> checked.status, body |-> checked.body,
           calls |-> <<"verifyWebhook", "validate">>]
     ELSE [next |-> TRUE, status |-> 0, body |-> [none |-> TRUE],
           calls |-> <<"verifyWebhook", "validate">>]

\* the request as the middleware chain leaves it; req.body is on record once
\* validate has read it
Received(token, body, verdict) ==
  LET validated == \E i \in DOMAIN verdict.calls : verdict.calls[i] = "validate"
  IN [IdleReq EXCEPT !.token = token,
                     !.bodyValid = WebhookSchemaValid(body),
                     !.event = IF validated THEN body.event ELSE Undefined,
                     !.data = IF validated THEN body.data ELSE NoData,
                     !.calls = verdict.calls]

\* variant: every received delivery is kept in the webhook store
RejectKeepsRecord(r, slot, verdict, headerId, body) ==
  /\ reqs' = [reqs EXCEPT ![r] =
                [slot EXCEPT !.pc = "done", !.calls = verdict.calls,
                             !.resp = [status |-> verdict.status,
                                       body |-> verdict.body]]]
  /\ webhookStore' = MapSet(webhookStore, WebhookIdOf(headerId, body),
                            WebhookRecord(WebhookIdOf(headerId, body), body))
  /\ UNCHANGED processedWebhooks

\* a middleware answered: nothing but the response is produced
Reject(r, slot, verdict, headerId, body) ==
  /\ reqs' = [reqs EXCEPT ![r] =
                [slot EXCEPT !.pc = "done", !.calls = verdict.calls,
                             !.resp = [status |-> verdict.status,
                                       body |-> verdict.body]]]
  /\ UNCHANGED <<processedWebhooks, webhookStore>>

\* variant: the webhook record is stored before the duplicate check
ProcessWebhookStoresFirst(r, slot, headerId, body) ==
  LET webhookId == WebhookIdOf(headerId, body)
      s1 == [slot EXCEPT !.webhookId = webhookId, !.event = body.event,
                         !.headerId = headerId,
                         !.created = body.created,
                         !.data = body.data,
                         !.calls = Append(slot.calls, "processWebhook")]
  IN /\ webhookStore' = MapSet(webhookStore, webhookId,
                               WebhookRecord(webhookId, body))
     /\ IF webhookId \in processedWebhooks
        THEN /\ reqs' = [reqs EXCEPT ![r] =
                           [s1 EXCEPT !.pc = "done",
                                      !.resp = Duplicate200(webhookId)]]
             /\ UNCHANGED processedWebhooks
        ELSE /\ processedWebhooks' = MarkProcessed(processedWebhooks, webhookId)
             /\ reqs' = [reqs EXCEPT ![r] =
                           Dispatch([s1 EXCEPT !.fresh = TRUE], dbAvailable)]

\* the route handler and service.processWebhook, run without suspension up
\* to the first awaited store call
ProcessWebhook(r, slot, headerId, body) ==
  LET webhookId == WebhookIdOf(headerId, body)
      s1 == [slot EXCEPT !.webhookId = webhookId, !.event = body.event,
                         !.headerId = headerId,
                         !.created = body.created,
                         !.data = body.data,
                         !.calls = Append(slot.calls, "processWebhook")]
  IN IF webhookId \in processedWebhooks
     THEN /\ reqs' = [reqs EXCEPT ![r] =
                        [s1 EXCEPT !.pc = "done",
                                   !.resp = Duplicate200(webhookId)]]
          /\ UNCHANGED <<processedWebhooks, webhookStore>>
     ELSE /\ processedWebhooks' = MarkProcessed(processedWebhooks, webhookId)
          /\ webhookStore' = MapSet(webhookStore, webhookId,
                                    WebhookRecord(webhookId, body))
          /\ reqs' = [reqs EXCEPT ![r] =
                        Dispatch([s1 EXCEPT !.fresh = TRUE], dbAvailable)]

\* variant: processWebhook awaits between processedWebhooks.has and
\* processedWebhooks.add
PostWebhookAwaitBeforeMark(r) ==
  \/ /\ reqs[r].pc = "idle"
     /\ \A q \in Reqs : q < r => reqs[q].pc # "idle"
     /\ \E token \in Tokens, d \in Deliveries :
          LET headerId == d[1]
              body == d[2]
              verdict == Middleware(token, body, expectedToken)
              slot == Received(token, body, verdict)
              webhookId == WebhookIdOf(headerId, body)
              s1 == [slot EXCEPT !.webhookId = webhookId, !.event = body.event,
                                 !.headerId = headerId,
                                 !.created = body.created,
                                 !.data = body.data,
                                 !.calls = Append(slot.calls, "processWebhook")]
          IN IF ~verdict.next
             THEN Reject(r, slot, verdict, headerId, body)
             ELSE IF webhookId \in processedWebhooks
             THEN /\ reqs' = [reqs EXCEPT ![r] =
                                [s1 EXCEPT !.pc = "done",
                                           !.resp = Duplicate200(webhookId)]]
                  /\ UNCHANGED <<processedWebhooks, webhookStore>>
             ELSE /\ reqs' = [reqs EXCEPT ![r] =
                                [s1 EXCEPT !.pc = "mark", !.fresh = TRUE]]
                  /\ UNCHANGED <<processedWebhooks, webhookStore>>
     /\ UNCHANGED <<idempotencyStore, now, expectedToken, dbAvailable, bookings, paymentLogs>>
  \/ /\ reqs[r].pc = "mark"
     /\ processedWebhooks' = MarkProcessed(processedWebhooks, reqs[r].webhookId)
     /\ webhookStore' = MapSet(webhookStore, reqs[r].webhookId,
                               WebhookRecord(reqs[r].webhookId,
                                             MkBody(reqs[r].event, reqs[r].data)))
     /\ reqs' = [reqs EXCEPT ![r] = Dispatch(reqs[r], dbAvailable)]
     /\ UNCHANGED <<idempotencyStore, now, expectedToken, dbAvailable, bookings, paymentLogs>>

\* one webhook POST arrives; requests arrive in the order of their numbers
PostWebhook(r) ==
  /\ reqs[r].pc = "idle"
  /\ \A q \in Reqs : q < r => reqs[q].pc # "idle"
  /\ \E token \in Tokens, d \in Deliveries :
       LET headerId == d[1]
           body == d[2]
           verdict == Middleware(token, body, expectedToken)
           slot == Received(token, body, verdict)
       IN IF ~verdict.next
          THEN Reject(r, slot, verdict, headerId, body)
          ELSE ProcessWebhook(r, slot, headerId, body)
  /\ UNCHANGED <<idempotencyStore, now, expectedToken, dbAvailable, bookings, paymentLogs>>

-----------------------------------------------------------------------------
(* Completion of the awaited store calls *)

\* variant: a failed handler takes its identifier out of the processed set
FailRollsBack(r, err) ==
  /\ reqs' = [reqs EXCEPT ![r] =
                IF reqs[r].handler = "caller"
                THEN [reqs[r] EXCEPT !.pc = "done",
                        !.result = [outcome |-> "threw", reason |-> err.message,
                                    status |-> reqs[r].status]]
                ELSE RespondError(reqs[r], err)]
  /\ processedWebhooks' = processedWebhooks \ {reqs[r].webhookId}
  /\ UNCHANGED webhookStore

\* variant: a failed handler deletes its webhook record
FailDropsRecord(r, err) ==
  /\ reqs' = [reqs EXCEPT ![r] =
                IF reqs[r].handler = "caller"
                THEN [reqs[r] EXCEPT !.pc = "done",
                        !.result = [outcome |-> "threw", reason |-> err.message,
                                    status |-> reqs[r].status]]
                ELSE RespondError(reqs[r], err)]
  /\ webhookStore' = [k \in DOMAIN webhookStore \ {reqs[r].webhookId} |->
                        webhookStore[k]]
  /\ UNCHANGED processedWebhooks

\* an error propagates out of the handler
Fail(r, err) ==
  /\ reqs' = [reqs EXCEPT ![r] =
                IF reqs[r].handler = "caller"
                THEN [reqs[r] EXCEPT !.pc = "done",
                        !.result = [outcome |-> "threw", reason |-> err.message,
                                    status |-> reqs[r].status]]
                ELSE RespondError(reqs[r], err)]
  /\ UNCHANGED <<processedWebhooks, webhookStore>>

\* variant: a missing booking document is an error
FsGetMissingThrows(r) ==
  /\ reqs[r].pc = "get"
  /\ \/ \E e \in StoreErrors : Fail(r, WrapUpdateError(e))
     \/ /\ reqs[r].bookingId \notin DOMAIN bookings
        /\ Fail(r, WrapUpdateError([name |-> "Error",
                                    message |-> "Booking not found",
                                    code |-> Undefined, statusCode |-> 0]))
     \/ /\ reqs[r].bookingId \in DOMAIN bookings
        /\ reqs' = [reqs EXCEPT ![r] =
                      [reqs[r] EXCEPT
                         !.pc = "update",
                         !.updateData =
                            UpdateDataOf(bookings[reqs[r].bookingId],
                                         reqs[r].status, reqs[r].paymentData)]]
        /\ UNCHANGED <<processedWebhooks, webhookStore>>
  /\ UNCHANGED <<idempotencyStore, now, expectedToken, dbAvailable, bookings, paymentLogs>>

\* await bookingRef.get() completes
FsGet(r) ==
  /\ reqs[r].pc = "get"
  /\ \/ \E e \in StoreErrors : Fail(r, WrapUpdateError(e))
     \/ /\ reqs[r].bookingId \notin DOMAIN bookings
        /\ reqs' = [reqs EXCEPT ![r] =
                      AfterUpdate(reqs[r], [outcome |-> "skipped",
                                            reason |-> "Booking not found",
                                            status |-> reqs[r].status],
                                  dbAvailable)]
        /\ UNCHANGED <<processedWebhooks, webhookStore>>
     \/ /\ reqs[r].bookingId \in DOMAIN bookings
        /\ reqs' = [reqs EXCEPT ![r] =
                      [reqs[r] EXCEPT
                         !.pc = "update",
                         !.updateData =
                            UpdateDataOf(bookings[reqs[r].bookingId],
                                         reqs[r].status, reqs[r].paymentData)]]
        /\ UNCHANGED <<processedWebhooks, webhookStore>>
  /\ UNCHANGED <<idempotencyStore, now, expectedToken, dbAvailable, bookings, paymentLogs>>

\* await bookingRef.update(updateData) completes
FsUpdate(r) ==
  /\ reqs[r].pc = "update"
  /\ \/ /\ \E e \in StoreErrors : Fail(r, WrapUpdateError(e))
        /\ UNCHANGED bookings
     \/ /\ Storable(reqs[r].updateData)
        /\ bookings' = [bookings EXCEPT ![reqs[r].bookingId] =
                          MergeUpdate(@, reqs[r].updateData)]
        /\ reqs' = [reqs EXCEPT ![r] =
                      AfterUpdate(reqs[r],
                                  [outcome |-> "success", reason |-> Undefined,
                                   status |-> MapXenditStatus(reqs[r].status)],
                                  dbAvailable)]
        /\ UNCHANGED <<processedWebhooks, webhookStore>>
  /\ UNCHANGED <<idempotencyStore, now, expectedToken, dbAvailable, paymentLogs>>

\* await paymentLogRef.set({...}) completes
FsLogSet(r) ==
  /\ reqs[r].pc = "logset"
  /\ \/ /\ \E e \in StoreErrors : Fail(r, e)
        /\ UNCHANGED paymentLogs
     \/ /\ paymentLogs' = paymentLogs (+)
                            SetToBag({LogRecordOf(reqs[r].handler, reqs[r].data)})
        /\ reqs' = [reqs EXCEPT ![r] = Respond200(reqs[r])]
        /\ UNCHANGED <<processedWebhooks, webhookStore>>
  /\ UNCHANGED <<idempotencyStore, now, expectedToken, dbAvailable, bookings>>

-----------------------------------------------------------------------------
(* routes.js: the admin routes GET / and GET /:webhookId *)

\* the Map named webhookStore that routes.js creates for itself: no statement
\* of routes.js adds to it, so it is empty for the whole process lifetime
RoutesWebhookStore == [k \in {} |-> Undefined]

\* Array.from(store.values()).sort(newest receivedAt first); the order among
\* records is not modelled
SortedValues(store) ==
  LET keys == DOMAIN store
  IN CHOOSE seq \in [1..Cardinality(keys) -> {store[k] : k \in keys}] :
       \A k \in keys : \E i \in DOMAIN seq : seq[i] = store[k]

\* the :webhookId path parameters asked for
WebhookIdParams == DOMAIN webhookStore \cup {"wh-unknown"}

\* GET /
GetWebhooks(r) ==
  /\ reqs[r].pc = "idle"
  /\ \A q \in Reqs : q < r => reqs[q].pc # "idle"
  /\ LET webhooks == SortedValues(RoutesWebhookStore)
     IN reqs' = [reqs EXCEPT ![r] =
                   [IdleReq EXCEPT
                      !.pc = "done", !.calls = <<"getWebhooks">>,
                      !.resp = [status |-> 200,
                                body |-> [success |-> TRUE,
                                          data |-> [webhooks |-> webhooks,
                                                    total |-> Len(webhooks)]]]]]
  /\ UNCHANGED <<idempotencyStore, now, expectedToken, dbAvailable, processedWebhooks, webhookStore,
                 bookings, paymentLogs>>

\* variant: a missing record is answered 200 with empty data
GetWebhookByIdNoCheck(r) ==
  /\ reqs[r].pc = "idle"
  /\ \A q \in Reqs : q < r => reqs[q].pc # "idle"
  /\ \E webhookId \in WebhookIdParams :
       LET webhook == IF webhookId \in DOMAIN RoutesWebhookStore
                      THEN RoutesWebhookStore[webhookId] ELSE Undefined
       IN reqs' = [reqs EXCEPT ![r] =
                     [IdleReq EXCEPT
                        !.pc = "done", !.calls = <<"getWebhookById">>,
                        !.webhookId = webhookId,
                        !.resp = [status |-> 200,
                                  body |-> [success |-> TRUE,
                                            data |-> webhook]]]]
  /\ UNCHANGED <<idempotencyStore, now, expectedToken, dbAvailable, processedWebhooks, webhookStore,
                 bookings, paymentLogs>>

\* GET /:webhookId
GetWebhookById(r) ==
  /\ reqs[r].pc = "idle"
  /\ \A q \in Reqs : q < r => reqs[q].pc # "idle"
  /\ \E webhookId \in WebhookIdParams :
       LET webhook == IF webhookId \in DOMAIN RoutesWebhookStore
                      THEN RoutesWebhookStore[webhookId] ELSE Undefined
       IN reqs' = [reqs EXCEPT ![r] =
                     [IdleReq EXCEPT
                        !.pc = "done", !.calls = <<"getWebhookById">>,
                        !.webhookId = webhookId,
                        !.resp = IF Falsy(webhook)
                                 THEN [status |-> 404,
                                       body |-> ErrorBody("WEBHOOK_NOT_FOUND",
                                                          "Webhook not found")]
                                 ELSE [status |-> 200,
                                       body |-> [success |-> TRUE,
                                                 data |-> webhook]]]]
  /\ UNCHANGED <<idempotencyStore, now, expectedToken, dbAvailable, processedWebhooks, webhookStore,
                 bookings, paymentLogs>>

-----------------------------------------------------------------------------
(* idempotency.js, and the routes of app.js it is mounted in front of *)

IDEMPOTENCY_EXPIRY_MS == 24 * 60 * 60 * 1000

\* the ledger size above which a response sweeps out expired entries
SweepThreshold == 1000

\* number of times the clock is advanced in one behaviour
MaxClockSteps == 3

\* a URL path is the sequence of its segments
PaymentRequestsMount == <<"api", "v1", "payment-requests">>
InvoicesMount == <<"api", "v1", "invoices">>

\* the idempotency-key header: absent, malformed, two UUIDs
Uuids ==
  {"0b7e1c52-3f0a-4c1e-9d2b-5a6f7e8d9c01",
   "7c9e6679-7425-40de-944b-e07fc1f90ae7"}

IdempotencyKeys == {Undefined, "not-a-uuid"} \cup Uuids

\* uuidRegex.test(idempotencyKey)
IsUuid(idempotencyKey) == idempotencyKey \in Uuids

\* the key that clients repeat
RepeatedKey == CHOOSE k \in Uuids : TRUE

\* the client requests: creation of a payment request and of an invoice, with
\* and without a key, with a body the schema rejects, and requests to a path
\* below the payment-requests mount that no route serves
MkApiRequest(method, url, idempotencyKey, bodyValid) ==
  [method |-> method, url |-> url, idempotencyKey |-> idempotencyKey,
   bodyValid |-> bodyValid]

\* the requests for which the middleware does not return at its first test
EngagedRequests ==
  {MkApiRequest("POST", PaymentRequestsMount \o <<"invoices">>, k, TRUE) :
     k \in IdempotencyKeys}
  \cup {MkApiRequest("POST", PaymentRequestsMount \o <<"payment-requests">>,
                     RepeatedKey, TRUE)}

ApiRequests ==
  {MkApiRequest("POST", PaymentRequestsMount, k, TRUE) :
     k \in {Undefined, "not-a-uuid", RepeatedKey}}
  \cup {MkApiRequest("POST", InvoicesMount, RepeatedKey, TRUE),
        MkApiRequest("POST", PaymentRequestsMount, RepeatedKey, FALSE),
        MkApiRequest("GET", PaymentRequestsMount \o <<"invoices">>,
                     RepeatedKey, TRUE)}
  \cup EngagedRequests

\* is the URL below the mount path
Below(url, mount) ==
  Len(url) >= Len(mount) /\ SubSeq(url, 1, Len(mount)) = mount

\* req.path inside app.use(mount, ...): the URL without the mount path
PathInMount(url, mount) == SubSeq(url, Len(mount) + 1, Len(url))

\* req.path as text: '/' followed by the segments
RECURSIVE JoinSegments(_)
JoinSegments(path) ==
  IF Len(path) = 0 THEN ""
  ELSE IF Len(path) = 1 THEN path[1]
  ELSE path[1] \o "/" \o JoinSegments(Tail(path))

PathText(path) == "/" \o JoinSegments(path)

\* req.path.includes('/' + name): no segment of the URLs above contains
\* another one, so the text occurs exactly when a segment is name
PathIncludes(path, name) == \E i \in DOMAIN path : path[i] = name

MapDelete(map, key) == [k \in DOMAIN map \ {key} |-> map[k]]

\* variant: the ledger is keyed by the caller's key alone
IdempotencyMiddlewareKeyOnly(method, path, idempotencyKey, store, clock) ==
  IF \/ method # "POST"
     \/ /\ ~PathIncludes(path, "payment-requests")
        /\ ~PathIncludes(path, "invoices")
  THEN [next |-> TRUE, key |-> Undefined, resp |-> NoResponse, store |-> store]
  ELSE IF Falsy(idempotencyKey)
  THEN [next |-> FALSE, key |-> Undefined, store |-> store,
        resp |-> [status |-> 400,
                  body |-> ErrorBody("MISSING_IDEMPOTENCY_KEY",
                             "Missing required header: idempotency-key")]]
  ELSE IF ~IsUuid(idempotencyKey)
  THEN [next |-> FALSE, key |-> Undefined, store |-> store,
        resp |-> [status |-> 400,
                  body |-> ErrorBody("INVALID_IDEMPOTENCY_KEY",
                             "Idempotency key must be a valid UUID")]]
  ELSE LET key == idempotencyKey
       IN IF key \in DOMAIN store
          THEN IF clock - store[key].timestamp > IDEMPOTENCY_EXPIRY_MS
               THEN [next |-> TRUE, key |-> key, resp |-> NoResponse,
                     store |-> MapDelete(store, key)]
               ELSE [next |-> FALSE, key |-> key, store |-> store,
                     resp |-> [status |-> store[key].statusCode,
                               body |-> store[key].response]]
          ELSE [next |-> TRUE, key |-> key, resp |-> NoResponse,
                store |-> store]

\* variant: a replay refreshes the timestamp of the entry
IdempotencyMiddlewareRefreshes(method, path, idempotencyKey, store, clock) ==
  IF \/ method # "POST"
     \/ /\ ~PathIncludes(path, "payment-requests")
        /\ ~PathIncludes(path, "invoices")
  THEN [next |-> TRUE, key |-> Undefined, resp |-> NoResponse, store |-> store]
  ELSE IF Falsy(idempotencyKey)
  THEN [next |-> FALSE, key |-> Undefined, store |-> store,
        resp |-> [status |-> 400,
                  body |-> ErrorBody("MISSING_IDEMPOTENCY_KEY",
                             "Missing required header: idempotency-key")]]
  ELSE IF ~IsUuid(idempotencyKey)
  THEN [next |-> FALSE, key |-> Undefined, store |-> store,
        resp |-> [status |-> 400,
                  body |-> ErrorBody("INVALID_IDEMPOTENCY_KEY",
                             "Idempotency key must be a valid UUID")]]
  ELSE LET key == method \o ":" \o PathText(path) \o ":" \o idempotencyKey
       IN IF key \in DOMAIN store
          THEN IF clock - store[key].timestamp > IDEMPOTENCY_EXPIRY_MS
               THEN [next |-> TRUE, key |-> key, resp |-> NoResponse,
                     store |-> MapDelete(store, key)]
               ELSE [next |-> FALSE, key |-> key,
                     store |-> MapSet(store, key,
                                      [store[key] EXCEPT !.timestamp = clock]),
                     resp |-> [status |-> store[key].statusCode,
                               body |-> store[key].response]]
          ELSE [next |-> TRUE, key |-> key, resp |-> NoResponse,
                store |-> store]

\* idempotencyMiddleware(req, res, next): next says whether next() was
\* called, key is the ledger key res.json was wrapped for (Undefined when it
\* was not wrapped), resp the response sent here, store the ledger afterwards
IdempotencyMiddleware(method, path, idempotencyKey, store, clock) ==
  IF \/ method # "POST"
     \/ /\ ~PathIncludes(path, "payment-requests")
        /\ ~PathIncludes(path, "invoices")
  THEN [next |-> TRUE, key |-> Undefined, resp |-> NoResponse, store |-> store]
  ELSE IF Falsy(idempotencyKey)
  THEN [next |-> FALSE, key |-> Undefined, store |-> store,
        resp |-> [status |-> 400,
                  body |-> ErrorBody("MISSING_IDEMPOTENCY_KEY",
                             "Missing required header: idempotency-key")]]
  ELSE IF ~IsUuid(idempotencyKey)
  THEN [next |-> FALSE, key |-> Undefined, store |-> store,
        resp |-> [status |-> 400,
                  body |-> ErrorBody("INVALID_IDEMPOTENCY_KEY",
                             "Idempotency key must be a valid UUID")]]
  ELSE LET key == method \o ":" \o PathText(path) \o ":" \o idempotencyKey
       IN IF key \in DOMAIN store
          THEN IF clock - store[key].timestamp > IDEMPOTENCY_EXPIRY_MS
               THEN [next |-> TRUE, key |-> key, resp |-> NoResponse,
                     store |-> MapDelete(store, key)]
               ELSE [next |-> FALSE, key |-> key, store |-> store,
                     resp |-> [status |-> store[key].statusCode,
                               body |-> store[key].response]]
          ELSE [next |-> TRUE, key |-> key, resp |-> NoResponse,
                store |-> store]

\* variant: the sweep removes an entry whose age is exactly the expiry period
SweepInclusive(store, clock) ==
  IF Cardinality(DOMAIN store) > SweepThreshold
  THEN LET cutoff == clock - IDEMPOTENCY_EXPIRY_MS
       IN [k \in {j \in DOMAIN store : ~(store[j].timestamp <= cutoff)} |->
             store[k]]
  ELSE store

\* variant: the sweep starts when the ledger has reached the threshold
SweepAtThreshold(store, clock) ==
  IF Cardinality(DOMAIN store) >= SweepThreshold
  THEN LET cutoff == clock - IDEMPOTENCY_EXPIRY_MS
       IN [k \in {j \in DOMAIN store : ~(store[j].timestamp < cutoff)} |->
             store[k]]
  ELSE store

\* the sweep inside the wrapped res.json
Sweep(store, clock) ==
  IF Cardinality(DOMAIN store) > SweepThreshold
  THEN LET cutoff == clock - IDEMPOTENCY_EXPIRY_MS
       IN [k \in {j \in DOMAIN store : ~(store[j].timestamp < cutoff)} |->
             store[k]]
  ELSE store

\* variant: an existing entry keeps its creation time when it is overwritten
LedgerAfterJsonKeepsTime(key, resp, store, clock) ==
  IF key = Undefined THEN store
  ELSE Sweep(MapSet(store, key,
                    [response |-> resp.body, statusCode |-> resp.status,
                     timestamp |-> IF key \in DOMAIN store
                                   THEN store[key].timestamp ELSE 0]),
             clock)

\* variant: only a successful response is stored
LedgerAfterJsonSuccessOnly(key, resp, store, clock) ==
  IF key = Undefined \/ resp.status >= 400 THEN store
  ELSE Sweep(MapSet(store, key,
                    [response |-> resp.body, statusCode |-> resp.status,
                     timestamp |-> clock]),
             clock)

\* the ledger after res.json(data) on a response whose res.json the
\* middleware wrapped for key (not wrapped: key is Undefined)
LedgerAfterJson(key, resp, store, clock) ==
  IF key = Undefined THEN store
  ELSE Sweep(MapSet(store, key,
                    [response |-> resp.body, statusCode |-> resp.status,
                     timestamp |-> clock]),
             clock)

\* a client request that has not been answered by the middleware
ApiSlot(q, path, verdict) ==
  [pc |-> "done", method |-> q.method, url |-> q.url, path |-> path,
   idempotencyKey |-> q.idempotencyKey, bodyValid |-> q.bodyValid,
   key |-> verdict.key, resp |-> verdict.resp,
   fresh |-> FALSE, calls |-> <<>>]

NotFound404 ==
  [status |-> 404, body |-> ErrorBody("NOT_FOUND", "Endpoint not found")]

\* what the provider answers to a creation call: the created object, an
\* error response, or nothing (the call times out)
ProviderOutcomes == {"created", "rejected", "timeout"}

\* the response of the creation route for each outcome of the provider call
CreationResponse(slot, outcome, r) ==
  CASE outcome = "created" ->
         [status |-> 201,
          body |-> [success |-> TRUE,
                    data |-> [id |-> "created-by-request-" \o ToString(r)]]]
    [] outcome = "rejected" /\ Below(slot.url, PaymentRequestsMount) ->
         [status |-> 400,
          body |-> [success |-> FALSE,
                    error |-> [error_code |-> "API_VALIDATION_ERROR"]]]
    [] outcome = "rejected" ->
         ErrorHandler([name |-> "AxiosError", code |-> "ERR_BAD_REQUEST",
                       message |-> "Request failed with status code 400",
                       statusCode |-> 0])
    [] OTHER ->
         ErrorHandler([name |-> "AxiosError", code |-> "ECONNABORTED",
                       message |-> "timeout of 30000ms exceeded",
                       statusCode |-> 0])

\* variant: the body is validated in front of the middleware
ServeValidateFirst(r, q) ==
  IF ~q.bodyValid
  THEN /\ reqs' = [reqs EXCEPT ![r] =
                     [pc |-> "done", method |-> q.method, url |-> q.url,
                      path |-> <<>>, idempotencyKey |-> q.idempotencyKey,
                      bodyValid |-> FALSE, key |-> Undefined,
                      resp |-> [status |-> 400,
                                body |-> ErrorBody("VALIDATION_ERROR",
                                                   "Invalid request data")],
                      fresh |-> TRUE, calls |-> <<"validate">>]]
       /\ UNCHANGED idempotencyStore
  ELSE
    LET guarded == Below(q.url, PaymentRequestsMount)
        mount == IF guarded THEN PaymentRequestsMount ELSE InvoicesMount
        path == PathInMount(q.url, mount)
        verdict ==
          IF guarded
          THEN IdempotencyMiddleware(q.method, path, q.idempotencyKey,
                                     idempotencyStore, now)
          ELSE [next |-> TRUE, key |-> Undefined, resp |-> NoResponse,
                store |-> idempotencyStore]
        slot == ApiSlot(q, path, verdict)
    IN IF ~verdict.next
       THEN /\ reqs' = [reqs EXCEPT ![r] =
                          [slot EXCEPT !.calls = <<"idempotency">>]]
            /\ idempotencyStore' = verdict.store
       ELSE IF q.method = "POST" /\ Len(path) = 0
       THEN IF q.bodyValid
            THEN /\ reqs' = [reqs EXCEPT ![r] =
                               [slot EXCEPT !.pc = "provider",
                                            !.fresh = TRUE,
                                            !.calls = <<"validate", "create">>]]
                 /\ idempotencyStore' = verdict.store
            ELSE LET resp == [status |-> 400,
                              body |-> ErrorBody("VALIDATION_ERROR",
                                                 "Invalid request data")]
                 IN /\ reqs' = [reqs EXCEPT ![r] =
                                  [slot EXCEPT !.resp = resp, !.fresh = TRUE,
                                               !.calls = <<"validate">>]]
                    /\ idempotencyStore' =
                         LedgerAfterJson(verdict.key, resp, verdict.store, now)
       ELSE /\ reqs' = [reqs EXCEPT ![r] =
                          [slot EXCEPT !.resp = NotFound404, !.fresh = TRUE,
                                       !.calls = <<"notFound">>]]
            /\ idempotencyStore' =
                 LedgerAfterJson(verdict.key, NotFound404, verdict.store, now)

\* the client request q is served as request r: the middleware in front of
\* its mount, then the router up to the awaited provider call, or the 404
\* handler of app.js
Serve(r, q) ==
  LET guarded == Below(q.url, PaymentRequestsMount)
      mount == IF guarded THEN PaymentRequestsMount ELSE InvoicesMount
      path == PathInMount(q.url, mount)
      verdict ==
        IF guarded
        THEN IdempotencyMiddleware(q.method, path, q.idempotencyKey,
                                   idempotencyStore, now)
        ELSE [next |-> TRUE, key |-> Undefined, resp |-> NoResponse,
              store |-> idempotencyStore]
      slot == ApiSlot(q, path, verdict)
  IN IF ~verdict.next
     THEN /\ reqs' = [reqs EXCEPT ![r] =
                        [slot EXCEPT !.calls = <<"idempotency">>]]
          /\ idempotencyStore' = verdict.store
     ELSE IF q.method = "POST" /\ Len(path) = 0
     THEN IF q.bodyValid
          THEN /\ reqs' = [reqs EXCEPT ![r] =
                             [slot EXCEPT !.pc = "provider",
                                          !.fresh = TRUE,
                                          !.calls = <<"validate", "create">>]]
               /\ idempotencyStore' = verdict.store
          ELSE LET resp == [status |-> 400,
                            body |-> ErrorBody("VALIDATION_ERROR",
                                               "Invalid request data")]
               IN /\ reqs' = [reqs EXCEPT ![r] =
                                [slot EXCEPT !.resp = resp, !.fresh = TRUE,
                                             !.calls = <<"validate">>]]
                  /\ idempotencyStore' =
                       LedgerAfterJson(verdict.key, resp, verdict.store, now)
     ELSE /\ reqs' = [reqs EXCEPT ![r] =
                        [slot EXCEPT !.resp = NotFound404, !.fresh = TRUE,
                                     !.calls = <<"notFound">>]]
          /\ idempotencyStore' =
               LedgerAfterJson(verdict.key, NotFound404, verdict.store, now)

\* a client request arrives
ApiRequest(r) ==
  /\ reqs[r].pc = "idle"
  /\ \A p \in Reqs : p < r => reqs[p].pc # "idle"
  /\ \E q \in ApiRequests : Serve(r, q)
  /\ UNCHANGED <<now, expectedToken, dbAvailable, processedWebhooks,
                 webhookStore, bookings, paymentLogs>>

\* a client request arrives for which the middleware engages
EngagedRequest(r) ==
  /\ reqs[r].pc = "idle"
  /\ \A p \in Reqs : p < r => reqs[p].pc # "idle"
  /\ \E q \in EngagedRequests : Serve(r, q)
  /\ UNCHANGED <<now, expectedToken, dbAvailable, processedWebhooks,
                 webhookStore, bookings, paymentLogs>>

\* the awaited provider call of a creation route completes and the route
\* answers
ProviderReply(r) ==
  /\ reqs[r].pc = "provider"
  /\ \E outcome \in ProviderOutcomes :
       LET resp == CreationResponse(reqs[r], outcome, r)
       IN /\ reqs' = [reqs EXCEPT ![r] =
                        [reqs[r] EXCEPT !.pc = "done", !.resp = resp]]
          /\ idempotencyStore' =
               LedgerAfterJson(reqs[r].key, resp, idempotencyStore, now)
  /\ UNCHANGED <<now, expectedToken, dbAvailable, processedWebhooks,
                 webhookStore, bookings, paymentLogs>>

\* the number of clock advances that led to the time t
ClockSteps(t) ==
  (t \div (IDEMPOTENCY_EXPIRY_MS - 1)) + (t % (IDEMPOTENCY_EXPIRY_MS - 1))

\* time passes: a millisecond, or a millisecond less than the expiry period
Tick ==
  /\ ClockSteps(now) < MaxClockSteps
  /\ \E d \in {1, IDEMPOTENCY_EXPIRY_MS - 1} : now' = now + d
  /\ UNCHANGED <<idempotencyStore, expectedToken, dbAvailable,
                 processedWebhooks, webhookStore, bookings, paymentLogs, reqs>>

-----------------------------------------------------------------------------
(* The webhook pipeline *)

TxFields ==
  {"status", "updatedAt", "paymentId", "referenceId", "paymentRequestId",
   "amount", "currency", "channelCode", "failureCode", "processedAt"}

\* a booking awaiting payment
MkBooking(payLater, url) ==
  [payLater |-> payLater, url |-> url, status |-> "Pending Payment",
   transaction |-> [t \in TxFields |->
                      IF t = "status" THEN "pending" ELSE Undefined]]

Init ==
  /\ expectedToken \in {Undefined, "", Secret}
  /\ dbAvailable \in BOOLEAN
  /\ processedWebhooks = {}
  /\ webhookStore = [k \in {} |-> Undefined]
  /\ bookings = [b \in {ExistingBooking} |-> MkBooking("false", "")]
  /\ paymentLogs = EmptyBag
  /\ reqs = [r \in Reqs |-> IdleReq]
  /\ idempotencyStore = [k \in {} |-> Undefined]
  /\ now = 0

Next ==
  \E r \in Reqs : PostWebhook(r) \/ FsGet(r) \/ FsUpdate(r) \/ FsLogSet(r)

Spec == Init /\ [][Next]_vars

-----------------------------------------------------------------------------
(* The booking update on its own: updateBookingTransactionStatus called   *)
(* again and again on one booking, one call at a time                     *)

\* the request slot that stands for the direct caller: the first one
Caller == CHOOSE r \in Reqs : \A q \in Reqs : r <= q

PayLaterValues == {"false", "true", Null, Undefined}

UrlValues == {Undefined, "", "   ", "https://cdn.example/ad.mp4"}

ProviderStatuses ==
  {"SUCCEEDED", "AUTHORIZED", "PENDING", "FAILED", "CANCELED", "EXPIRED",
   "REFUNDED", "constructor"}

\* a payload with every field, and one whose optional fields are null or
\* missing
PaymentDataPool ==
  {MkData("py-1", ExistingBooking, "SUCCEEDED"),
   [MkData(Null, ExistingBooking, "SUCCEEDED") EXCEPT
      !.payment_request_id = Undefined, !.amount = Undefined,
      !.currency = Null, !.channel_code = Undefined]}

InitBooking ==
  /\ expectedToken = Secret
  /\ dbAvailable \in BOOLEAN
  /\ processedWebhooks = {}
  /\ webhookStore = [k \in {} |-> Undefined]
  /\ \E payLater \in PayLaterValues, url \in UrlValues :
       bookings = [b \in {ExistingBooking} |-> MkBooking(payLater, url)]
  /\ paymentLogs = EmptyBag
  /\ reqs = [r \in Reqs |-> IdleReq]
  /\ idempotencyStore = [k \in {} |-> Undefined]
  /\ now = 0

\* a caller invokes updateBookingTransactionStatus
CallUpdate ==
  /\ reqs[Caller].pc \in {"idle", "done"}
  /\ \E bookingId \in {ExistingBooking, MissingBooking},
        status \in ProviderStatuses, paymentData \in PaymentDataPool :
       reqs' = [reqs EXCEPT ![Caller] =
                  CallUpdateBooking([IdleReq EXCEPT !.handler = "caller"],
                                    bookingId, status, paymentData, dbAvailable)]
  /\ UNCHANGED <<idempotencyStore, now, expectedToken, dbAvailable, processedWebhooks, webhookStore,
                 bookings, paymentLogs>>

NextBooking == CallUpdate \/ FsGet(Caller) \/ FsUpdate(Caller)

SpecBooking == InitBooking /\ [][NextBooking]_vars

-----------------------------------------------------------------------------
(* The webhook routes with the admin routes, in a process that has no      *)
(* document store, so that every handler finishes within its request      *)

InitAdmin ==
  /\ expectedToken = Secret
  /\ dbAvailable = FALSE
  /\ processedWebhooks = {}
  /\ webhookStore = [k \in {} |-> Undefined]
  /\ bookings = [b \in {ExistingBooking} |-> MkBooking("false", "")]
  /\ paymentLogs = EmptyBag
  /\ reqs = [r \in Reqs |-> IdleReq]
  /\ idempotencyStore = [k \in {} |-> Undefined]
  /\ now = 0

NextAdmin ==
  \E r \in Reqs : PostWebhook(r) \/ GetWebhooks(r) \/ GetWebhookById(r)

SpecAdmin == InitAdmin /\ [][NextAdmin]_vars

-----------------------------------------------------------------------------
(* Deliveries of capture.succeeded events with every combination of the   *)
(* captured and the authorized amount                                      *)

CapturedAmounts == {Undefined, Null, "0", "300"}

AuthorizedAmounts == {Undefined, "500"}

CaptureBodies ==
  {MkBody("capture.succeeded",
          [MkCapture(ref, "SUCCEEDED") EXCEPT !.captured_amount = c,
                                              !.authorized_amount = a]) :
     ref \in {ExistingBooking, MissingBooking},
     c \in CapturedAmounts, a \in AuthorizedAmounts}

InitCapture ==
  /\ expectedToken = Secret
  /\ dbAvailable = TRUE
  /\ processedWebhooks = {}
  /\ webhookStore = [k \in {} |-> Undefined]
  /\ bookings = [b \in {ExistingBooking} |-> MkBooking("false", "")]
  /\ paymentLogs = EmptyBag
  /\ reqs = [r \in Reqs |-> IdleReq]
  /\ idempotencyStore = [k \in {} |-> Undefined]
  /\ now = 0

\* one authenticated capture.succeeded delivery arrives
PostCapture(r) ==
  /\ reqs[r].pc = "idle"
  /\ \A q \in Reqs : q < r => reqs[q].pc # "idle"
  /\ \E body \in CaptureBodies :
       LET headerId == Undefined
           verdict == Middleware(Secret, body, expectedToken)
           slot == Received(Secret, body, verdict)
       IN IF ~verdict.next
          THEN Reject(r, slot, verdict, headerId, body)
          ELSE ProcessWebhook(r, slot, headerId, body)
  /\ UNCHANGED <<idempotencyStore, now, expectedToken, dbAvailable, bookings, paymentLogs>>

NextCapture ==
  \E r \in Reqs : PostCapture(r) \/ FsGet(r) \/ FsUpdate(r) \/ FsLogSet(r)

SpecCapture == InitCapture /\ [][NextCapture]_vars

-----------------------------------------------------------------------------
(* The client requests in front of which the idempotency ledger is mounted *)

InitLedger ==
  /\ expectedToken = Secret
  /\ dbAvailable = FALSE
  /\ processedWebhooks = {}
  /\ webhookStore = [k \in {} |-> Undefined]
  /\ bookings = [b \in {ExistingBooking} |-> MkBooking("false", "")]
  /\ paymentLogs = EmptyBag
  /\ reqs = [r \in Reqs |-> IdleReq]
  /\ idempotencyStore = [k \in {} |-> Undefined]
  /\ now = 0

NextLedger == Tick \/ \E r \in Reqs : ApiRequest(r) \/ ProviderReply(r)

SpecLedger == InitLedger /\ [][NextLedger]_vars

-----------------------------------------------------------------------------
(* The ledger when it is about to exceed the sweep threshold: the process  *)
(* has answered many requests with keys of their own in its first instant  *)

\* the ledger key of the i-th of these earlier requests
FillerKey(i) == "POST:/invoices:earlier-key-" \o ToString(i)

\* the ledger after n such requests, each answered by the 404 handler
FilledLedger(n) ==
  [k \in {FillerKey(i) : i \in 1..n} |->
     [response |-> NotFound404.body, statusCode |-> NotFound404.status,
      timestamp |-> 0]]

InitSweep ==
  /\ expectedToken = Secret
  /\ dbAvailable = FALSE
  /\ processedWebhooks = {}
  /\ webhookStore = [k \in {} |-> Undefined]
  /\ bookings = [b \in {ExistingBooking} |-> MkBooking("false", "")]
  /\ paymentLogs = EmptyBag
  /\ reqs = [r \in Reqs |-> IdleReq]
  /\ \E n \in {SweepThreshold - 1, SweepThreshold} :
       idempotencyStore = FilledLedger(n)
  /\ now = 0

NextSweep == Tick \/ \E r \in Reqs : EngagedRequest(r)

SpecSweep == InitSweep /\ [][NextSweep]_vars

-----------------------------------------------------------------------------
(* Requests to a ledger that holds the response of an earlier request      *)

\* the ledger key of the earlier request
StoredKey == "POST" \o ":" \o PathText(<<"invoices">>) \o ":" \o RepeatedKey

\* the ledger after that request was answered by the 404 handler at time 0
LedgerWithEntry ==
  [k \in {StoredKey} |->
     [response |-> NotFound404.body, statusCode |-> NotFound404.status,
      timestamp |-> 0]]

InitReplay ==
  /\ expectedToken = Secret
  /\ dbAvailable = FALSE
  /\ processedWebhooks = {}
  /\ webhookStore = [k \in {} |-> Undefined]
  /\ bookings = [b \in {ExistingBooking} |-> MkBooking("false", "")]
  /\ paymentLogs = EmptyBag
  /\ reqs = [r \in Reqs |-> IdleReq]
  /\ idempotencyStore = LedgerWithEntry
  /\ now = 0

\* the requests of EngagedRequests, and one that repeats the stored key with
\* a body the schema of the creation route rejects
ReplayRequests ==
  EngagedRequests
  \cup {MkApiRequest("POST", PaymentRequestsMount \o <<"invoices">>,
                     RepeatedKey, FALSE)}

ReplayRequest(r) ==
  /\ reqs[r].pc = "idle"
  /\ \A p \in Reqs : p < r => reqs[p].pc # "idle"
  /\ \E q \in ReplayRequests : Serve(r, q)
  /\ UNCHANGED <<now, expectedToken, dbAvailable, processedWebhooks,
                 webhookStore, bookings, paymentLogs>>

NextReplay == Tick \/ \E r \in Reqs : ReplayRequest(r)

SpecReplay == InitReplay /\ [][NextReplay]_vars

-----------------------------------------------------------------------------
(* Properties of the webhook pipeline *)

HandlerNames ==
  {"handlePaymentCapture", "handleCaptureSucceeded", "handlePaymentAuthorization",
   "handlePaymentFailure", "handlePaymentRequestExpiry",
   "handlePaymentRequestSucceeded", "handlePaymentRequestFailed"}

\* how often request r entered one of the functions in names
Entered(r, names) ==
  Cardinality({i \in DOMAIN reqs[r].calls : reqs[r].calls[i] \in names})

\* request r got as far as the dedup check of processWebhook
Deduped(r) == Entered(r, {"processWebhook"}) > 0

\* request r was answered as a duplicate
AnsweredDuplicate(r) ==
  reqs[r].pc = "done" /\ Deduped(r) /\ ~reqs[r].fresh

\* request r carried a token the configured secret does not accept
BadToken(r) ==
  reqs[r].pc # "idle"
  /\ (Falsy(reqs[r].token) \/ reqs[r].token # expectedToken)

ErrorCodeOf(resp) ==
  IF "error" \in DOMAIN resp.body THEN resp.body.error.code ELSE Undefined

\* C1: over all deliveries that pass authentication and validation, the
\* handler, the booking update and the audit append of one event identifier
\* are started at most once: the first delivery with an identifier runs its
\* handler, every later delivery with that identifier runs none.
C1_HandlerAtMostOncePerId ==
  \A r \in Reqs :
    Deduped(r) =>
      IF \E q \in Reqs : q < r /\ Deduped(q)
                         /\ reqs[q].webhookId = reqs[r].webhookId
      THEN /\ Entered(r, HandlerNames) = 0
           /\ Entered(r, {"updateBookingTransactionStatus"}) = 0
           /\ Entered(r, {"createPaymentLog"}) = 0
      ELSE /\ Entered(r, HandlerNames) = 1
           /\ Entered(r, {"updateBookingTransactionStatus"}) <= 1
           /\ Entered(r, {"createPaymentLog"}) <= 1

C1_Witness ==
  \E q, r \in Reqs :
    /\ q < r /\ Deduped(q) /\ Deduped(r)
    /\ reqs[q].webhookId = reqs[r].webhookId
    /\ reqs[q].pc = "done" /\ reqs[r].pc = "done"
    /\ Entered(q, {"updateBookingTransactionStatus"}) = 1
    /\ Entered(q, {"createPaymentLog"}) = 1

\* of the deliveries that reached the dedup check with one identifier,
\* exactly one found it unseen
ExactlyOneUnseen ==
  \A r \in Reqs :
    Deduped(r) =>
      Cardinality({q \in Reqs : reqs[q].fresh
                                /\ reqs[q].webhookId = reqs[r].webhookId}) = 1

\* C2: the step in which a delivery finds its identifier absent from the
\* processed set is the step that inserts it, so of the deliveries with one
\* identifier exactly one sees it as unseen, also while the first is still
\* awaiting the store.
C2_CheckAndMarkInOneStep ==
  [][ /\ \A r \in Reqs :
           (~reqs[r].fresh /\ reqs'[r].fresh) =>
              /\ reqs'[r].webhookId \notin processedWebhooks
              /\ reqs'[r].webhookId \in processedWebhooks'
      /\ ExactlyOneUnseen'
    ]_vars

C2_Witness ==
  \E q, r \in Reqs :
    /\ q # r
    /\ reqs[q].fresh /\ reqs[q].pc \in {"get", "update", "logset"}
    /\ AnsweredDuplicate(r)
    /\ reqs[r].webhookId = reqs[q].webhookId

\* C3: with a secret configured, a POST whose x-callback-token is missing
\* or differs from it is answered 401 INVALID_WEBHOOK_TOKEN and enters
\* nothing behind verifyWebhook, whatever its body and webhook-id header.
C3_BadTokenNeverDispatched ==
  \A r \in Reqs :
    (~Falsy(expectedToken) /\ BadToken(r)) =>
      /\ reqs[r].pc = "done"
      /\ reqs[r].resp.status = 401
      /\ ErrorCodeOf(reqs[r].resp) = "INVALID_WEBHOOK_TOKEN"
      /\ reqs[r].calls = <<"verifyWebhook">>
      /\ ~reqs[r].fresh

C3_Witness ==
  \E q, r \in Reqs :
    /\ ~Falsy(expectedToken)
    /\ BadToken(q) /\ Falsy(reqs[q].token) /\ reqs[q].bodyValid
    /\ BadToken(r) /\ ~Falsy(reqs[r].token)
    /\ reqs[q].resp.status = 401 /\ reqs[r].resp.status = 401

\* C4: with no secret configured every POST, whatever token it carries, is
\* answered 500 CONFIGURATION_ERROR and nothing is processed.
C4_NoSecretFailsClosed ==
  Falsy(expectedToken) =>
    /\ processedWebhooks = {}
    /\ DOMAIN webhookStore = {}
    /\ \A r \in Reqs :
         reqs[r].pc # "idle" =>
           /\ reqs[r].pc = "done"
           /\ reqs[r].resp.status = 500
           /\ ErrorCodeOf(reqs[r].resp) = "CONFIGURATION_ERROR"
           /\ reqs[r].calls = <<"verifyWebhook">>

C4_Witness ==
  /\ Falsy(expectedToken)
  /\ \E q, r \in Reqs :
       /\ reqs[q].pc = "done" /\ Falsy(reqs[q].token)
       /\ reqs[r].pc = "done" /\ reqs[r].token = Secret /\ reqs[r].bodyValid
       /\ reqs[q].resp.status = 500 /\ reqs[r].resp.status = 500

\* C5: verifyWebhook runs before validate and before the dedup check: a
\* request with a bad token and a schema-invalid body gets the
\* authentication answer (401 or 500), never 400, and no request reaches
\* validate or the dedup check without having passed verifyWebhook.
C5_AuthBeforeValidationAndDedup ==
  \A r \in Reqs :
    /\ (BadToken(r) /\ ~reqs[r].bodyValid) =>
          /\ reqs[r].resp.status \in {401, 500}
          /\ ErrorCodeOf(reqs[r].resp)
               \in {"INVALID_WEBHOOK_TOKEN", "CONFIGURATION_ERROR"}
    /\ (Entered(r, {"validate", "processWebhook"}) > 0) =>
          /\ reqs[r].calls[1] = "verifyWebhook"
          /\ ~BadToken(r)
    /\ Deduped(r) =>
          /\ reqs[r].calls[2] = "validate"
          /\ reqs[r].bodyValid

C5_Witness ==
  \E q, r \in Reqs :
    /\ BadToken(q) /\ ~reqs[q].bodyValid /\ reqs[q].resp.status = 401
    /\ Deduped(r) /\ reqs[r].fresh

\* a POST was answered by a middleware in this step
RejectedNow(r) ==
  /\ reqs[r].pc = "idle"
  /\ reqs'[r].pc = "done"
  /\ reqs'[r].resp.status \in {400, 401, 500}

\* C6: a POST rejected by authentication (401, 500) or by validation (400)
\* leaves the processed set, the webhook store, the bookings and the audit
\* log as they were.
C6_RejectionChangesNothing ==
  [][ \A r \in Reqs :
        RejectedNow(r) =>
          /\ processedWebhooks' = processedWebhooks
          /\ webhookStore' = webhookStore
          /\ bookings' = bookings
          /\ paymentLogs' = paymentLogs
    ]_vars

C6_Witness ==
  \E q, r \in Reqs :
    /\ reqs[q].fresh /\ processedWebhooks # {}
    /\ reqs[r].pc = "done" /\ reqs[r].resp.status = 400
    /\ ErrorCodeOf(reqs[r].resp) = "VALIDATION_ERROR"
    /\ Entered(r, {"processWebhook"}) = 0

\* request r is the first delivery of its identifier and was answered 200
AnsweredProcessed(r) ==
  reqs[r].pc = "done" /\ reqs[r].fresh /\ reqs[r].resp.status = 200

\* C7 as claimed: every duplicate delivery is answered 200 with success true
\* and duplicate: true in the body, and the answer to the first delivery of
\* an identifier has no duplicate field.
C7_DuplicateFieldInBody ==
  \A r \in Reqs :
    /\ AnsweredDuplicate(r) =>
         /\ reqs[r].resp.status = 200
         /\ reqs[r].resp.body.success = TRUE
         /\ "duplicate" \in DOMAIN reqs[r].resp.body
    /\ AnsweredProcessed(r) => "duplicate" \notin DOMAIN reqs[r].resp.body

\* C7 amended: every duplicate delivery is answered 200 with success true,
\* the message 'Webhook already processed' and the identifier, and nothing
\* else: the body has no duplicate field, and the duplicate is told from the
\* first delivery, whose message is 'Webhook processed successfully', by the
\* message alone.
C7_DuplicateToldByMessage ==
  \A r \in Reqs :
    /\ AnsweredDuplicate(r) =>
         /\ reqs[r].resp.status = 200
         /\ reqs[r].resp.body.success = TRUE
         /\ reqs[r].resp.body.message = "Webhook already processed"
         /\ reqs[r].resp.body.webhookId = reqs[r].webhookId
         /\ DOMAIN reqs[r].resp.body = {"success", "message", "webhookId"}
    /\ AnsweredProcessed(r) =>
         /\ reqs[r].resp.body.success = TRUE
         /\ reqs[r].resp.body.message = "Webhook processed successfully"
         /\ "duplicate" \notin DOMAIN reqs[r].resp.body

C7_Witness ==
  \E q, r \in Reqs :
    /\ q < r
    /\ AnsweredProcessed(q) /\ AnsweredDuplicate(r)
    /\ reqs[q].webhookId = reqs[r].webhookId

\* the handler of request r threw
HandlerThrew(r) ==
  reqs[r].pc = "done" /\ reqs[r].fresh /\ Entered(r, {"errorHandler"}) = 1

\* after a failed first delivery the identifier stays marked and every later
\* delivery with it is a duplicate that runs nothing
MarkSurvivesFailure(r) ==
  /\ reqs[r].webhookId \in processedWebhooks
  /\ \A q \in Reqs :
       (q > r /\ Deduped(q) /\ reqs[q].webhookId = reqs[r].webhookId) =>
          /\ AnsweredDuplicate(q)
          /\ reqs[q].resp.status = 200
          /\ Entered(q, HandlerNames) = 0

\* C8 as claimed: a throwing handler is answered 500 INTERNAL_SERVER_ERROR,
\* the identifier stays in the processed set and later deliveries with it
\* are answered 200 as duplicates without running a handler.
C8_HandlerFailureIs500Internal ==
  \A r \in Reqs :
    HandlerThrew(r) =>
      /\ reqs[r].resp.status = 500
      /\ ErrorCodeOf(reqs[r].resp) = "INTERNAL_SERVER_ERROR"
      /\ MarkSurvivesFailure(r)

\* C8 amended: a throwing handler is answered with the error envelope
\* (success false). A failed booking update, whose error is wrapped in a new
\* Error, is answered 500 INTERNAL_SERVER_ERROR; a failed audit write is
\* answered with the store error's own statusCode and code where it carries
\* them, and 500 / INTERNAL_SERVER_ERROR where it does not. The identifier
\* stays in the processed set and later deliveries with it are answered 200
\* as duplicates without running a handler.
C8_HandlerFailureEnvelope ==
  \A r \in Reqs :
    HandlerThrew(r) =>
      /\ reqs[r].resp.body.success = FALSE
      /\ IF Entered(r, {"createPaymentLog"}) = 0
         THEN /\ reqs[r].resp.status = 500
              /\ ErrorCodeOf(reqs[r].resp) = "INTERNAL_SERVER_ERROR"
         ELSE \E e \in StoreErrors :
                /\ reqs[r].resp.status =
                     (IF e.statusCode = 0 THEN 500 ELSE e.statusCode)
                /\ ErrorCodeOf(reqs[r].resp) =
                     (IF e.code = Undefined THEN "INTERNAL_SERVER_ERROR"
                      ELSE e.code)
      /\ MarkSurvivesFailure(r)

C8_Witness ==
  \E q, r \in Reqs :
    /\ q < r
    /\ HandlerThrew(q) /\ Entered(q, {"createPaymentLog"}) = 1
    /\ ErrorCodeOf(reqs[q].resp) = "INTERNAL_SERVER_ERROR"
    /\ AnsweredDuplicate(r)
    /\ reqs[r].webhookId = reqs[q].webhookId

-----------------------------------------------------------------------------
(* Properties of the booking update *)

\* the call of updateBookingTransactionStatus just returned success
UpdateApplied ==
  reqs[Caller].pc = "done" /\ reqs[Caller].result.outcome = "success"

PayLaterFalseOrAbsent(doc) == doc.payLater \in {"false", Null, Undefined}

UrlEmpty(doc) == doc.url \in {Undefined, "", "   "}

C10_PendingWithUrlProcessing ==
  LET doc == bookings[ExistingBooking]
  IN (UpdateApplied /\ MapXenditStatus(reqs[Caller].status) = "pending"
      /\ PayLaterFalseOrAbsent(doc) /\ ~UrlEmpty(doc)) =>
        doc.status = "Processing"

\* the six provider statuses the mapper lists
ListedStatuses ==
  {"SUCCEEDED", "AUTHORIZED", "PENDING", "FAILED", "CANCELED", "EXPIRED"}

\* the cases in which no derived-status rule applies: a successful payment
\* with pay-later true or with a non-empty URL, and every provider status
\* that is not a successful payment
NoDerivedStatusRule(doc, status) ==
  \/ /\ status = "SUCCEEDED"
     /\ \/ doc.payLater = "true"
        \/ ~UrlEmpty(doc) /\ MapXenditStatus(status) # "pending"
  \/ status \in {"FAILED", "EXPIRED", "CANCELED", "AUTHORIZED"}
  \/ status \notin ListedStatuses

\* C11: a booking update in which no derived-status rule applies (successful
\* payment with pay-later true or with a non-empty URL; provider status
\* FAILED, EXPIRED, CANCELED, AUTHORIZED or unmapped) leaves the record's
\* top-level status as it was.
C11_NoRuleLeavesStatus ==
  [][\A b \in DOMAIN bookings :
       (reqs[Caller].pc = "update" /\ reqs'[Caller].pc = "done"
        /\ reqs[Caller].bookingId = b
        /\ NoDerivedStatusRule(bookings[b], reqs[Caller].status)) =>
          bookings'[b].status = bookings[b].status]_vars

C11_Witness ==
  LET doc == bookings[ExistingBooking]
  IN /\ UpdateApplied /\ reqs[Caller].status = "FAILED"
     /\ PayLaterFalseOrAbsent(doc) /\ UrlEmpty(doc)
     /\ doc.transaction.status = "failed"
     /\ doc.status = "Pending Payment"

\* the seven values the mapper is documented to return
MappedValues ==
  {"completed", "authorized", "pending", "failed", "cancelled", "expired",
   "unknown"}

\* C12 as claimed: whatever string the mapper is given, the value it returns
\* (here: the one written to transaction.status) is one of the seven mapped
\* values, and it is unknown for every string that is not a listed status.
C12_MapperTotal ==
  reqs[Caller].pc = "update" =>
    LET mapped == reqs[Caller].updateData["transaction.status"]
    IN /\ mapped \in MappedValues
       /\ reqs[Caller].status \notin ListedStatuses => mapped = "unknown"

-----------------------------------------------------------------------------
(* Properties of deliveries the handlers tolerate *)

Called(slot, name) == \E i \in DOMAIN slot.calls : slot.calls[i] = name

CallCount(slot, name) ==
  Cardinality({i \in DOMAIN slot.calls : slot.calls[i] = name})

\* the request was answered with an error that a failed store call raised
StoreCallFailed(slot) ==
  /\ slot.resp.status \notin {0, 200}
  /\ "error" \in DOMAIN slot.resp.body
  /\ slot.resp.body.error.message \in
       {"store call failed", "Failed to update booking: store call failed"}

\* the delivery was authenticated
Authenticated(slot) == expectedToken = Secret /\ slot.token = Secret

C14_NoReferenceStillAudited ==
  \A r \in Reqs :
    (reqs[r].pc = "done" /\ Authenticated(reqs[r])
     /\ reqs[r].event \in {"payment_request.expiry", "payment_request.failed"}
     /\ Falsy(reqs[r].data.reference_id)) =>
       /\ reqs[r].resp.status = 200
       /\ ~Called(reqs[r], "updateBookingTransactionStatus")
       /\ CallCount(reqs[r], "createPaymentLog") = 1

\* C15 as claimed: an authenticated delivery whose event tag is not one of
\* the nine recognized tags is answered 200, with no booking update.
C15_UnrecognizedTagAccepted ==
  \A r \in Reqs :
    (reqs[r].pc = "done" /\ Authenticated(reqs[r])
     /\ reqs[r].event # Undefined
     /\ reqs[r].event \notin RecognizedEvents) =>
       /\ reqs[r].resp.status = 200
       /\ ~Called(reqs[r], "updateBookingTransactionStatus")

\* C16 as claimed: once a non-duplicate delivery with identifier W has been
\* accepted, GET /:webhookId for W answers 200 with its Webhook Record and
\* GET / lists every record.
C16_AcceptedRecordVisible ==
  \A r \in Reqs :
    /\ (Called(reqs[r], "getWebhookById")
        /\ reqs[r].webhookId \in DOMAIN webhookStore) =>
          /\ reqs[r].resp.status = 200
          /\ reqs[r].resp.body.data = webhookStore[reqs[r].webhookId]
    /\ (Called(reqs[r], "getWebhooks")
        /\ \A q \in Reqs : q > r => reqs[q].pc = "idle") =>
          reqs[r].resp.body.data.total = Cardinality(DOMAIN webhookStore)

\* C17: a Webhook Record is immutable once created: no step (a duplicate, a
\* failing delivery, a delivery with another payload under the same
\* identifier) changes or removes a record that is in the store.
C17_RecordImmutable ==
  [][\A k \in DOMAIN webhookStore :
       k \in DOMAIN webhookStore' /\ webhookStore'[k] = webhookStore[k]]_vars

C17_Witness ==
  \E r, q \in Reqs :
    /\ r # q /\ reqs[r].fresh /\ AnsweredDuplicate(q)
    /\ reqs[q].webhookId = reqs[r].webhookId
    /\ reqs[q].event # reqs[r].event
    /\ webhookStore[reqs[r].webhookId].event = reqs[r].event
    /\ HandlerThrew(r)

\* C18: GET /:webhookId with an identifier that is not in the record store
\* is answered 404 with code WEBHOOK_NOT_FOUND, and the step changes no
\* state besides the response.
C18_UnknownIdIs404 ==
  [][\A r \in Reqs :
       (reqs[r].pc = "idle" /\ Called(reqs'[r], "getWebhookById")
        /\ reqs'[r].webhookId \notin DOMAIN webhookStore) =>
          /\ reqs'[r].resp.status = 404
          /\ ErrorCodeOf(reqs'[r].resp) = "WEBHOOK_NOT_FOUND"
          /\ UNCHANGED <<processedWebhooks, webhookStore, bookings,
                         paymentLogs, expectedToken, dbAvailable,
                         idempotencyStore, now>>
          /\ \A q \in Reqs \ {r} : reqs'[q] = reqs[q]]_vars

C18_Witness ==
  \E r \in Reqs :
    /\ Called(reqs[r], "getWebhookById")
    /\ reqs[r].webhookId = "wh-unknown"
    /\ reqs[r].resp.status = 404
    /\ DOMAIN webhookStore # {}

-----------------------------------------------------------------------------
(* Properties of the idempotency ledger *)

\* a request that creates a payment request or an invoice
IsCreation(slot) ==
  /\ "method" \in DOMAIN slot
  /\ slot.method = "POST" /\ Len(slot.path) = 0 /\ slot.bodyValid

\* request r arrives in this step
Arrives(r) == reqs[r].pc = "idle" /\ reqs'[r].pc # "idle"

\* C19 as claimed: a creation request that arrives after an earlier one with
\* the same method, path and Idempotency-Key has responded, less than 24
\* hours later, is answered with the status code and body of the earlier
\* one, and the provider is not called again.
C19_ReplayedWithinExpiry ==
  [][\A p, r \in Reqs :
       (Arrives(r) /\ IsCreation(reqs'[r])
        /\ reqs[p].pc = "done" /\ IsCreation(reqs[p])
        /\ reqs[p].resp.status = 201
        /\ reqs'[r].url = reqs[p].url
        /\ IsUuid(reqs[p].idempotencyKey)
        /\ reqs'[r].idempotencyKey = reqs[p].idempotencyKey
        /\ now <= IDEMPOTENCY_EXPIRY_MS) =>
          /\ reqs'[r].pc = "done"
          /\ reqs'[r].resp = reqs[p].resp
          /\ ~Called(reqs'[r], "create")]_vars

\* C20: a request that arrives when the ledger holds an entry for its
\* compound key that is more than 24 hours old is treated as fresh: it is
\* executed downstream, and the entry for the key is the new response with
\* the current time as its creation time.
C20_StaleEntryReplaced ==
  [][\A r \in Reqs :
       (Arrives(r) /\ "key" \in DOMAIN reqs'[r]
        /\ reqs'[r].key \in DOMAIN idempotencyStore
        /\ now - idempotencyStore[reqs'[r].key].timestamp
             > IDEMPOTENCY_EXPIRY_MS) =>
          /\ reqs'[r].fresh
          /\ ~Called(reqs'[r], "idempotency")
          /\ reqs'[r].pc = "done" =>
               /\ reqs'[r].key \in DOMAIN idempotencyStore'
               /\ idempotencyStore'[reqs'[r].key] =
                    [response |-> reqs'[r].resp.body,
                     statusCode |-> reqs'[r].resp.status,
                     timestamp |-> now]]_vars

C20_Witness ==
  \E p, r \in Reqs :
    /\ p < r /\ reqs[r].pc = "done" /\ reqs[p].pc = "done"
    /\ IsUuid(reqs[r].idempotencyKey)
    /\ reqs[r].key # Undefined /\ reqs[p].key = reqs[r].key
    /\ reqs[p].fresh /\ reqs[r].fresh
    /\ idempotencyStore[reqs[r].key].timestamp > IDEMPOTENCY_EXPIRY_MS
    /\ idempotencyStore[reqs[r].key].timestamp = now

\* a POST to the creation endpoint of the payment requests or the invoices
IsCreationPost(slot) ==
  /\ "method" \in DOMAIN slot
  /\ slot.method = "POST" /\ Len(slot.path) = 0

\* C21 as claimed: every POST to a creation endpoint that carries no
\* Idempotency-Key is answered 400 MISSING_IDEMPOTENCY_KEY and the provider
\* is not called for it.
C21_MissingKeyRejected ==
  \A r \in Reqs :
    (IsCreationPost(reqs[r]) /\ Falsy(reqs[r].idempotencyKey)) =>
      /\ reqs[r].pc = "done"
      /\ reqs[r].resp.status = 400
      /\ ErrorCodeOf(reqs[r].resp) = "MISSING_IDEMPOTENCY_KEY"
      /\ ~Called(reqs[r], "create")

\* C22 as claimed: every POST to a creation endpoint whose Idempotency-Key
\* is not a UUID is answered 400 INVALID_IDEMPOTENCY_KEY before any
\* downstream call.
C22_MalformedKeyRejected ==
  \A r \in Reqs :
    (IsCreationPost(reqs[r]) /\ ~Falsy(reqs[r].idempotencyKey)
     /\ ~IsUuid(reqs[r].idempotencyKey)) =>
      /\ reqs[r].pc = "done"
      /\ reqs[r].resp.status = 400
      /\ ErrorCodeOf(reqs[r].resp) = "INVALID_IDEMPOTENCY_KEY"
      /\ ~Called(reqs[r], "validate") /\ ~Called(reqs[r], "create")

\* request r was answered from the ledger
Replayed(r) ==
  /\ "key" \in DOMAIN reqs[r]
  /\ reqs[r].key # Undefined /\ Called(reqs[r], "idempotency")

\* request r, for which res.json is wrapped, sends its response in this step
RespondsWrapped(r) ==
  /\ reqs[r].pc # "done" /\ reqs'[r].pc = "done"
  /\ "key" \in DOMAIN reqs'[r]
  /\ reqs'[r].key # Undefined /\ reqs'[r].fresh

\* C23 as claimed: only a successful response creates a ledger entry.
C23_OnlySuccessStored ==
  \A k \in DOMAIN idempotencyStore : idempotencyStore[k].statusCode < 400

\* C23, amended: every response that a request sends through the wrapped
\* res.json creates the ledger entry of its key, whatever its status code,
\* and a request that arrives while the entry of its key is not older than
\* 24 hours is answered with the stored status code and body, an error
\* included, without being executed.
C23_EveryResponseStored ==
  [][\A r \in Reqs :
       /\ RespondsWrapped(r) =>
            /\ reqs'[r].key \in DOMAIN idempotencyStore'
            /\ idempotencyStore'[reqs'[r].key] =
                 [response |-> reqs'[r].resp.body,
                  statusCode |-> reqs'[r].resp.status,
                  timestamp |-> now]
       /\ (Arrives(r) /\ "key" \in DOMAIN reqs'[r]
           /\ reqs'[r].key \in DOMAIN idempotencyStore
           /\ now - idempotencyStore[reqs'[r].key].timestamp
                <= IDEMPOTENCY_EXPIRY_MS) =>
            /\ ~reqs'[r].fresh /\ reqs'[r].pc = "done"
            /\ reqs'[r].resp =
                 [status |-> idempotencyStore[reqs'[r].key].statusCode,
                  body |-> idempotencyStore[reqs'[r].key].response]
            /\ idempotencyStore' = idempotencyStore]_vars

C23_Witness ==
  \E p, r \in Reqs :
    /\ p < r /\ Replayed(r) /\ reqs[r].resp.status = 404
    /\ reqs[p].fresh /\ reqs[p].key = reqs[r].key
    /\ idempotencyStore[reqs[r].key].statusCode = 404

\* C25: the ledger is keyed by method, path and caller key: a request that
\* is answered from the ledger repeats the response of an earlier executed
\* request with the same method, the same path and the same key; requests
\* that share the key but differ in path or method have separate entries.
C25_CompoundKey ==
  /\ \A r \in Reqs :
       Replayed(r) =>
         \E p \in Reqs :
           /\ p < r /\ reqs[p].fresh
           /\ reqs[p].method = reqs[r].method
           /\ reqs[p].path = reqs[r].path
           /\ reqs[p].idempotencyKey = reqs[r].idempotencyKey
           /\ reqs[p].resp = reqs[r].resp
  /\ \A p, r \in Reqs :
       ("key" \in DOMAIN reqs[p] /\ "key" \in DOMAIN reqs[r]
        /\ reqs[p].key # Undefined /\ reqs[r].key # Undefined
        /\ (reqs[p].path # reqs[r].path \/ reqs[p].method # reqs[r].method)) =>
         reqs[p].key # reqs[r].key

C25_Witness ==
  \E p, r \in Reqs :
    /\ p < r /\ reqs[p].pc = "done" /\ reqs[r].pc = "done"
    /\ IsUuid(reqs[p].idempotencyKey)
    /\ reqs[p].idempotencyKey = reqs[r].idempotencyKey
    /\ reqs[p].path # reqs[r].path
    /\ reqs[p].key # Undefined /\ reqs[r].key # Undefined
    /\ reqs[p].fresh /\ reqs[r].fresh
    /\ {reqs[p].key, reqs[r].key} \subseteq DOMAIN idempotencyStore

\* C24: when storing a response leaves the ledger with more than 1000
\* entries, exactly the entries older than 24 hours are removed; when it
\* leaves 1000 entries or fewer, none is removed; the entries that stay are
\* unchanged. So the ledger can hold more than 1000 unexpired entries.
C24_SweepAboveThreshold ==
  [][\A r \in Reqs :
       RespondsWrapped(r) =>
         LET key == reqs'[r].key
             afterSet == DOMAIN idempotencyStore \cup {key}
             createdAt(k) == IF k = key THEN now
                             ELSE idempotencyStore[k].timestamp
         IN /\ Cardinality(afterSet) > 1000 =>
                 DOMAIN idempotencyStore' =
                   {k \in afterSet :
                      ~(now - createdAt(k) > IDEMPOTENCY_EXPIRY_MS)}
            /\ Cardinality(afterSet) <= 1000 =>
                 DOMAIN idempotencyStore' = afterSet
            /\ \A k \in DOMAIN idempotencyStore' \ {key} :
                 idempotencyStore'[k] = idempotencyStore[k]]_vars

\* a sweep has removed the expired entries and kept one that is not
C24_Witness ==
  \E p, r \in Reqs :
    /\ p < r /\ reqs[p].pc = "done" /\ reqs[r].pc = "done"
    /\ reqs[p].fresh /\ reqs[r].fresh
    /\ reqs[p].key # Undefined /\ reqs[r].key # Undefined
    /\ DOMAIN idempotencyStore = {reqs[p].key, reqs[r].key}
    /\ idempotencyStore[reqs[p].key].timestamp < now
    /\ idempotencyStore[reqs[r].key].timestamp = now

-----------------------------------------------------------------------------
(* Properties of the audit log, the event identifier and the booking frame *)

\* the delivery of request r reached createPaymentLog and was answered
Audited(r) ==
  /\ reqs[r].pc = "done" /\ reqs[r].fresh
  /\ Called(reqs[r], "createPaymentLog")

\* C26 as claimed: when the audit record of a delivery was not appended,
\* because the store failed or because there is no store, the webhook
\* request fails.
C26_AuditLossFailsRequest ==
  \A r \in Reqs :
    (Audited(r)
     /\ ~BagIn(LogRecordOf(reqs[r].handler, reqs[r].data), paymentLogs)) =>
       reqs[r].resp.status # 200

\* C26, amended: a failure of the store during the audit-log append
\* propagates and the request is answered with the error envelope; without
\* a store createPaymentLog returns without writing and the request is
\* answered 200 with no audit record appended.
C26_AuditFailurePropagatesUnavailabilityDoesNot ==
  \A r \in Reqs :
    Audited(r) =>
      IF dbAvailable
      THEN \/ /\ reqs[r].resp.status = 200
              /\ BagIn(LogRecordOf(reqs[r].handler, reqs[r].data), paymentLogs)
           \/ /\ StoreCallFailed(reqs[r])
              /\ reqs[r].resp.body.success = FALSE
      ELSE /\ reqs[r].resp.status = 200
           /\ paymentLogs = EmptyBag

C26_Witness ==
  \E r \in Reqs :
    /\ Audited(r) /\ ~dbAvailable
    /\ reqs[r].resp.status = 200
    /\ reqs[r].resp.body.success = TRUE
    /\ paymentLogs = EmptyBag

\* the first of payment_id, id, payment_request_id, reference_id that holds
\* a value
BestAvailableId(data) ==
  IF ~Falsy(data.payment_id) THEN data.payment_id
  ELSE IF ~Falsy(data.id) THEN data.id
  ELSE IF ~Falsy(data.payment_request_id) THEN data.payment_request_id
  ELSE data.reference_id

\* C27: the event identifier is the webhook-id header when the delivery
\* carries one, otherwise eventType-bestAvailableId-createdAt; two deliveries
\* with the same header, or without header and with the same event type,
\* fields and created timestamp, get the same identifier.
C27_EventIdentifier ==
  /\ \A r \in Reqs :
       Deduped(r) =>
         reqs[r].webhookId =
           IF ~Falsy(reqs[r].headerId) THEN reqs[r].headerId
           ELSE reqs[r].event \o "-" \o BestAvailableId(reqs[r].data)
                \o "-" \o reqs[r].created
  /\ \A r, q \in Reqs :
       (Deduped(r) /\ Deduped(q)
        /\ reqs[r].headerId = reqs[q].headerId
        /\ (Falsy(reqs[r].headerId) =>
              /\ reqs[r].event = reqs[q].event
              /\ reqs[r].data = reqs[q].data
              /\ reqs[r].created = reqs[q].created)) =>
         reqs[r].webhookId = reqs[q].webhookId

C27_Witness ==
  /\ \E r \in Reqs :
       /\ Deduped(r) /\ reqs[r].headerId = Undefined
       /\ reqs[r].data.payment_id = Undefined
       /\ reqs[r].webhookId = "capture.succeeded-cap-1-2024-01-01T00:00:00Z"
  /\ \E r \in Reqs :
       /\ Deduped(r) /\ reqs[r].headerId = "wh-1"
       /\ reqs[r].webhookId = "wh-1"

\* the payload field each transaction sub-field is taken from
PayloadFieldOf(t) ==
  CASE t = "paymentId" -> "payment_id"
    [] t = "referenceId" -> "reference_id"
    [] t = "paymentRequestId" -> "payment_request_id"
    [] t = "amount" -> "amount"
    [] t = "currency" -> "currency"
    [] t = "channelCode" -> "channel_code"
    [] t = "failureCode" -> "failure_code"

PayloadSubFields ==
  {"paymentId", "referenceId", "paymentRequestId", "amount", "currency",
   "channelCode", "failureCode"}

\* request r's bookingRef.update() is applied in this step
UpdateStep(r) ==
  /\ reqs[r].pc = "update"
  /\ reqs'[r].pc # "update"
  /\ reqs'[r].result.outcome = "success"

C29_UpdateFrame ==
  /\ [](DOMAIN bookings = {ExistingBooking})
  /\ [][\A b \in DOMAIN bookings :
          /\ DOMAIN bookings'[b] = DOMAIN bookings[b]
          /\ DOMAIN bookings'[b].transaction = DOMAIN bookings[b].transaction
          /\ \A f \in DOMAIN bookings[b] \ {"transaction", "status"} :
               bookings'[b][f] = bookings[b][f]
          /\ bookings'[b].status # bookings[b].status =>
               /\ UpdateStep(Caller)
               /\ bookings'[b].status =
                    BookingStatusOf(bookings[b], reqs[Caller].status)
               /\ ~Falsy(bookings'[b].status)
          /\ bookings'[b] # bookings[b] =>
               UpdateStep(Caller) /\ reqs[Caller].bookingId = b]_vars

C29_Witness ==
  /\ UpdateApplied
  /\ bookings[ExistingBooking].transaction.status = "completed"
  /\ bookings[ExistingBooking].transaction.paymentId = "py-1"
  /\ bookings[ExistingBooking].payLater = "true"
  /\ bookings[ExistingBooking].url = "https://cdn.example/ad.mp4"
  /\ bookings[ExistingBooking].status = "Pending Payment"

\* C30: a payment.capture webhook with provider status SUCCEEDED sets the
\* booking's transaction status to 'paid', the value the README's status
\* mapping table gives for SUCCEEDED.
C30_CaptureSucceededIsPaid ==
  [][\A r \in Reqs :
       (UpdateStep(r)
        /\ reqs[r].event = "payment.capture"
        /\ reqs[r].status = "SUCCEEDED") =>
         bookings'[reqs[r].bookingId].transaction.status = "paid"]_vars

-----------------------------------------------------------------------------
(* Properties of the dispatch, the capture payload and the handlers' order *)

\* the handler family the switch selects for each tag
FamilyOf(ev) ==
  CASE ev = "payment.capture" -> "handlePaymentCapture"
    [] ev = "payment.succeeded" -> "handlePaymentCapture"
    [] ev = "capture.succeeded" -> "handleCaptureSucceeded"
    [] ev = "payment.authorization" -> "handlePaymentAuthorization"
    [] ev = "payment.failure" -> "handlePaymentFailure"
    [] ev = "payment.failed" -> "handlePaymentFailure"
    [] ev = "payment_request.expiry" -> "handlePaymentRequestExpiry"
    [] ev = "payment_request.succeeded" -> "handlePaymentRequestSucceeded"
    [] ev = "payment_request.failed" -> "handlePaymentRequestFailed"

UpdatingTags ==
  {"payment.capture", "payment.succeeded", "capture.succeeded",
   "payment.failure", "payment.failed", "payment_request.expiry",
   "payment_request.failed"}

\* the non-duplicate delivery of request r has been answered
Finished(r) == reqs[r].pc = "done" /\ reqs[r].fresh

UpdateCalls(r) == CallCount(reqs[r], "updateBookingTransactionStatus")

AuditCalls(r) == CallCount(reqs[r], "createPaymentLog")

\* the booking-update call of request r threw
UpdateThrew(r) ==
  /\ Finished(r)
  /\ UpdateCalls(r) = 1
  /\ reqs[r].result.outcome = "none"

\* request r ran exactly the handler of its tag
RanOwnFamily(r) ==
  /\ Entered(r, HandlerNames) = 1
  /\ Entered(r, {FamilyOf(reqs[r].event)}) = 1

\* C31 as claimed: every non-duplicate delivery runs exactly the handler of
\* its tag; the updating families make at most one booking-update call and
\* exactly one audit append, payment_request.succeeded one audit append and
\* no update, payment.authorization neither.
C31_ExactlyOneAuditAppend ==
  \A r \in Reqs :
    Finished(r) =>
      /\ RanOwnFamily(r)
      /\ reqs[r].event \in UpdatingTags =>
           UpdateCalls(r) <= 1 /\ AuditCalls(r) = 1
      /\ reqs[r].event = "payment_request.succeeded" =>
           UpdateCalls(r) = 0 /\ AuditCalls(r) = 1
      /\ reqs[r].event = "payment.authorization" =>
           UpdateCalls(r) = 0 /\ AuditCalls(r) = 0

\* C31, amended: as above, but an updating family makes its one audit append
\* only when its booking-update call returned; when that call threw it makes
\* none.
C31_OneFamilyPerTag ==
  \A r \in Reqs :
    Finished(r) =>
      /\ RanOwnFamily(r)
      /\ reqs[r].event \in UpdatingTags =>
           /\ UpdateCalls(r) <= 1
           /\ AuditCalls(r) = IF UpdateThrew(r) THEN 0 ELSE 1
      /\ reqs[r].event = "payment_request.succeeded" =>
           UpdateCalls(r) = 0 /\ AuditCalls(r) = 1
      /\ reqs[r].event = "payment.authorization" =>
           UpdateCalls(r) = 0 /\ AuditCalls(r) = 0

C31_Witness ==
  /\ \E r \in Reqs :
       /\ Finished(r) /\ reqs[r].event = "payment.failure"
       /\ UpdateThrew(r) /\ AuditCalls(r) = 0
  /\ \E r \in Reqs :
       /\ Finished(r) /\ reqs[r].event = "payment.authorization"
       /\ UpdateCalls(r) = 0 /\ AuditCalls(r) = 0

\* a payload value that is there: neither missing nor null
Present(v) == v \notin {Undefined, Null}

\* C32: for a capture.succeeded event the booking update receives a payment
\* data record whose payment id is the capture's id and whose amount is the
\* captured amount whenever one is present, the value 0 included, and the
\* authorized amount only when the captured amount is absent.
C32_CapturedAmountFirst ==
  \A r \in Reqs :
    (Finished(r) /\ reqs[r].event = "capture.succeeded"
     /\ UpdateCalls(r) = 1) =>
       /\ reqs[r].paymentData.payment_id = reqs[r].data.id
       /\ reqs[r].paymentData.amount =
            IF Present(reqs[r].data.captured_amount)
            THEN reqs[r].data.captured_amount
            ELSE reqs[r].data.authorized_amount

-----------------------------------------------------------------------------
(* Properties of the ledger under concurrent and repeated requests *)

\* C33: of two creation requests with the same method, path and
\* Idempotency-Key inside the expiry window at most one reaches the
\* provider, also when the second arrives while the first is still waiting
\* for the provider's answer.
C33_ProviderCalledAtMostOnce ==
  \A p, r \in Reqs :
    (p # r /\ IsCreation(reqs[p]) /\ IsCreation(reqs[r])
     /\ reqs[p].url = reqs[r].url
     /\ IsUuid(reqs[p].idempotencyKey)
     /\ reqs[p].idempotencyKey = reqs[r].idempotencyKey
     /\ now <= IDEMPOTENCY_EXPIRY_MS) =>
       ~(Called(reqs[p], "create") /\ Called(reqs[r], "create"))

\* request r arrives in this step and is answered from the ledger
ReplayedNow(r) ==
  /\ Arrives(r) /\ "key" \in DOMAIN reqs'[r]
  /\ reqs'[r].key # Undefined
  /\ Called(reqs'[r], "idempotency")

\* C34: a request answered from the ledger leaves the ledger as it was: the
\* entry is not rewritten and its timestamp is not refreshed; a timestamp
\* changes only when an executed request stores its response, so a request
\* that arrives more than 24 hours after the entry was created is executed,
\* however often the entry was replayed in between.
C34_ReplayLeavesLedger ==
  [][/\ \A r \in Reqs :
          ReplayedNow(r) =>
            /\ idempotencyStore' = idempotencyStore
            /\ reqs'[r].resp =
                 [status |-> idempotencyStore[reqs'[r].key].statusCode,
                  body |-> idempotencyStore[reqs'[r].key].response]
     /\ \A k \in DOMAIN idempotencyStore \cap DOMAIN idempotencyStore' :
          idempotencyStore'[k] # idempotencyStore[k] =>
            \E r \in Reqs : RespondsWrapped(r) /\ reqs'[r].key = k
     /\ \A r \in Reqs :
          (Arrives(r) /\ "key" \in DOMAIN reqs'[r]
           /\ reqs'[r].key \in DOMAIN idempotencyStore
           /\ now - idempotencyStore[reqs'[r].key].timestamp
                > IDEMPOTENCY_EXPIRY_MS) =>
             reqs'[r].fresh /\ ~Called(reqs'[r], "idempotency")]_vars

\* the entry was replayed, and a later request that came more than 24 hours
\* after its creation was executed
C34_Witness ==
  \E p, r \in Reqs :
    /\ p < r /\ Replayed(p) /\ reqs[p].key = StoredKey
    /\ reqs[r].pc = "done" /\ reqs[r].fresh /\ reqs[r].key = StoredKey
    /\ now > IDEMPOTENCY_EXPIRY_MS
    /\ idempotencyStore[StoredKey].timestamp = now

-----------------------------------------------------------------------------
(* Properties of the webhook service without a store, and of its two sets *)

\* C35: when the record store is unavailable a booking update returns a
\* skipped outcome with a reason instead of throwing, no read or write on
\* the store is made, and the webhook request completes with 200.
C35_UnavailableStoreSkipsUpdate ==
  ~dbAvailable =>
    /\ \A r \in Reqs :
         /\ reqs[r].pc \notin {"get", "update", "logset"}
         /\ UpdateCalls(r) > 0 =>
              /\ reqs[r].result.outcome = "skipped"
              /\ reqs[r].result.reason = "Firestore not available"
              /\ reqs[r].pc = "done"
              /\ reqs[r].resp.status = 200
              /\ ~Called(reqs[r], "errorHandler")
    /\ bookings = [b \in {ExistingBooking} |-> MkBooking("false", "")]
    /\ paymentLogs = EmptyBag

C35_Witness ==
  /\ ~dbAvailable
  /\ \E r \in Reqs :
       /\ reqs[r].event = "payment.capture" /\ UpdateCalls(r) = 1
       /\ reqs[r].result.outcome = "skipped"
       /\ reqs[r].resp.status = 200
       /\ reqs[r].resp.body.success = TRUE

\* C36: in the webhook service the keys of the webhook record store are at
\* every moment the processed identifiers: both are written in the same
\* step, before a handler runs, and nothing is ever removed from either,
\* also when the handler fails later.
C36_StoreKeysAreProcessedSet ==
  /\ [](DOMAIN webhookStore = processedWebhooks)
  /\ [](\A k \in DOMAIN webhookStore : webhookStore[k].id = k)
  /\ [][/\ processedWebhooks \subseteq processedWebhooks'
        /\ DOMAIN webhookStore \subseteq DOMAIN webhookStore'
        /\ \A r \in Reqs :
             (Arrives(r) /\ reqs'[r].fresh) =>
               /\ reqs'[r].webhookId \notin processedWebhooks
               /\ reqs'[r].webhookId \in processedWebhooks'
               /\ reqs'[r].webhookId \in DOMAIN webhookStore']_vars

C36_Witness ==
  \E r \in Reqs :
    /\ HandlerThrew(r)
    /\ reqs[r].webhookId \in processedWebhooks
    /\ reqs[r].webhookId \in DOMAIN webhookStore
    /\ \E q \in Reqs : q # r /\ reqs[q].pc \in {"get", "update", "logset"}

-----------------------------------------------------------------------------
(* Properties of the order of updates and audit appends *)

\* the status mapping, as a table
StatusTable(s) ==
  CASE s = "SUCCEEDED" -> "completed"
    [] s = "AUTHORIZED" -> "authorized"
    [] s = "PENDING" -> "pending"
    [] s = "FAILED" -> "failed"
    [] s = "CANCELED" -> "cancelled"
    [] s = "EXPIRED" -> "expired"
    [] OTHER -> "unknown"

\* C37: a booking update that succeeds for provider status s leaves
\* transaction.status equal to map(s) whatever it was before; no transition
\* is refused, so the transaction status is always that of the last update
\* applied, and a later FAILED or EXPIRED event overwrites completed.
C37_LastUpdateWins ==
  [][\A r \in Reqs :
       UpdateStep(r) =>
         /\ bookings'[reqs[r].bookingId].transaction.status =
              StatusTable(reqs[r].status)
         /\ reqs'[r].result.status = StatusTable(reqs[r].status)]_vars

C37_Witness ==
  /\ bookings[ExistingBooking].transaction.status \in {"failed", "expired"}
  /\ \E p, r \in Reqs :
       /\ p < r
       /\ reqs[p].pc = "done" /\ reqs[p].result.outcome = "success"
       /\ reqs[p].status = "SUCCEEDED"
       /\ reqs[r].result.outcome = "success"
       /\ reqs[r].status \in {"FAILED", "EXPIRED"}

\* the positions of the calls of name in the call sequence of a request
PositionsOf(slot, name) == {i \in DOMAIN slot.calls : slot.calls[i] = name}

\* the deliveries whose audit append was written
Appended ==
  {r \in Reqs : /\ "handler" \in DOMAIN reqs[r]
                /\ reqs[r].pc = "done" /\ dbAvailable
                /\ AuditCalls(r) = 1 /\ reqs[r].resp.status = 200}

\* C38: in a handler that updates a booking the audit append starts only
\* after the booking-update call has returned, with a success or a skipped
\* outcome; when the update threw there is no audit append, so a failed
\* update leaves no audit record for its delivery.
C38_AuditAfterUpdateReturned ==
  /\ \A r \in Reqs :
       UpdateCalls(r) > 0 =>
         /\ reqs[r].pc \in {"get", "update"} => AuditCalls(r) = 0
         /\ UpdateThrew(r) => AuditCalls(r) = 0
         /\ AuditCalls(r) > 0 =>
              /\ reqs[r].result.outcome \in {"success", "skipped"}
              /\ \A i \in PositionsOf(reqs[r], "createPaymentLog"),
                    j \in PositionsOf(reqs[r], "updateBookingTransactionStatus") :
                   j < i
  /\ BagCardinality(paymentLogs) = Cardinality(Appended)

C38_Witness ==
  \E p, r \in Reqs :
    /\ UpdateThrew(p) /\ AuditCalls(p) = 0
    /\ r \in Appended /\ reqs[r].result.outcome = "skipped"
    /\ BagCardinality(paymentLogs) = 1

-----------------------------------------------------------------------------
(* Properties of the expiry boundary and of the replay's inputs *)

\* the ledger together with as many other entries as make a sweep run
FullLedger == FilledLedger(SweepThreshold)

Crowded(store) == store @@ FullLedger

\* a lookup of the entry of key k at the present time treats it as expired
LookupExpires(u) ==
  IdempotencyMiddleware("POST", <<"invoices">>, u, idempotencyStore, now).next

KeyOf(u) ==
  IdempotencyMiddleware("POST", <<"invoices">>, u, idempotencyStore, now).key

\* C39: a lookup at time t treats an entry as expired exactly when a sweep
\* at time t would remove it, namely when its age is greater than 24 hours;
\* an entry whose age is exactly 24 hours is replayed and is not swept.
C39_SameExpiryBoundary ==
  LET kept == DOMAIN Sweep(Crowded(idempotencyStore), now)
  IN \A u \in Uuids :
       KeyOf(u) \in DOMAIN idempotencyStore =>
         LET age == now - idempotencyStore[KeyOf(u)].timestamp
             swept == KeyOf(u) \notin kept
         IN /\ LookupExpires(u) <=> swept
            /\ swept <=> age > 24 * 60 * 60 * 1000

C39_Witness ==
  /\ now - idempotencyStore[StoredKey].timestamp = 24 * 60 * 60 * 1000
  /\ ~LookupExpires(RepeatedKey)
  /\ StoredKey \in DOMAIN Sweep(Crowded(idempotencyStore), now)
  /\ \E r \in Reqs : Replayed(r) /\ reqs[r].key = StoredKey

\* C40: the replayed response depends on the compound key only: a request
\* that arrives with the method, path and key of an unexpired entry is
\* answered with the stored status and body whatever its own body is, and
\* its body is neither validated nor sent downstream.
C40_ReplayIgnoresBody ==
  [][\A r \in Reqs :
       (Arrives(r) /\ "key" \in DOMAIN reqs'[r]
        /\ IsUuid(reqs'[r].idempotencyKey)
        /\ reqs'[r].method = "POST"
        /\ StoredKey \in DOMAIN idempotencyStore
        /\ reqs'[r].url = PaymentRequestsMount \o <<"invoices">>
        /\ reqs'[r].idempotencyKey = RepeatedKey
        /\ now - idempotencyStore[StoredKey].timestamp
             <= IDEMPOTENCY_EXPIRY_MS) =>
          /\ reqs'[r].pc = "done"
          /\ reqs'[r].resp =
               [status |-> idempotencyStore[StoredKey].statusCode,
                body |-> idempotencyStore[StoredKey].response]
          /\ reqs'[r].calls = <<"idempotency">>
          /\ ~reqs'[r].fresh
          /\ idempotencyStore' = idempotencyStore]_vars

C40_Witness ==
  \E p, r \in Reqs :
    /\ Replayed(p) /\ Replayed(r)
    /\ reqs[p].key = StoredKey /\ reqs[r].key = StoredKey
    /\ reqs[p].bodyValid /\ ~reqs[r].bodyValid
    /\ reqs[p].resp = reqs[r].resp
    /\ reqs[r].resp.status = 404

====
